---- MODULE Spec2Model ----
(***************************************************************************)
(* MUUD Health: the domain service (backend/server.js, Express over two    *)
(* PostgreSQL tables) and the client's data-access layer (services/api.js  *)
(* over utils/storage.js, remote first with a local AsyncStorage           *)
(* fallback).                                                              *)
(*                                                                         *)
(* Representation.  Strings that the code inspects character by character  *)
(* (e-mail addresses, contact names, ids turned into text) are sequences   *)
(* of character codes; entry texts and messages, which are only compared   *)
(* or tested for emptiness, are TLA+ strings.  An instant (an ISO-8601     *)
(* string, a Date, a TIMESTAMP column) is its number of milliseconds.      *)
(***************************************************************************)
EXTENDS Integers, Sequences, FiniteSets, TLC

VARIABLES
    journal_entries,  \* server: rows of table journal_entries
    journal_seq,      \* server: last value of journal_entries_id_seq (SERIAL)
    contacts,         \* server: rows of table contacts
    contacts_seq,     \* server: last value of contacts_id_seq (SERIAL)
    local_entries,    \* client: AsyncStorage 'journal_entries' (absent key reads as [])
    local_contacts,   \* client: AsyncStorage 'contacts' (absent key reads as [])
    local_user_id,    \* client: AsyncStorage 'user_id' (<<>> when the key is absent)
    now,              \* the clock, in milliseconds
    issued,           \* history: the entries POST /journal/entry has answered 201 for
    deleted_ids,      \* history: ids DELETE /journal/entry/:id has answered 200 for
    call,             \* client: the remote attempt in progress, step by step
    API_BASE_URL,     \* client: let API_BASE_URL = null ("" until it is resolved)
    tasks,            \* client: the operations two callers have in progress, await by await
    screen_entries,   \* client: the list the journal screen shows, and its origin
    server,           \* server: startServer and testConnection, step by step
    pool_out,         \* server: clients checked out of the pool and not released
    mode_asked,       \* history: the argument of the last setBackendMode / setAPIMode,
                      \* as text ("none" before the first call)
    last              \* observation: the last operation, its input and its outcome

vars == <<journal_entries, journal_seq, contacts, contacts_seq,
          local_entries, local_contacts, local_user_id, now, issued, deleted_ids,
          call, API_BASE_URL, tasks, screen_entries, server, pool_out,
          mode_asked, last>>

serverVars == <<journal_entries, journal_seq, contacts, contacts_seq, issued, deleted_ids>>
localVars == <<local_entries, local_contacts, local_user_id>>
\* What is modelled step by step apart from the remote attempt of a call.
startVars == <<server, pool_out>>
processVars == <<tasks, screen_entries, startVars, mode_asked>>
callVars == <<call, API_BASE_URL, processVars>>

(***************************************************************************)
(* Bounds of the model.                                                    *)
(***************************************************************************)
MaxCreates == 2         \* records created (ids handed out by the service after the
                        \* first start, plus records held by the local store)
MaxTicks == 1           \* milliseconds the clock advances

\* The clock at the start: three and a half days after the epoch of the model,
\* so that the sample timestamps (up to three days back) are not negative.
StartTime == 302400000

HourMs == 60 * 60 * 1000
DayMs == 24 * HourMs

(***************************************************************************)
(* Text helpers.                                                           *)
(***************************************************************************)
\* String.prototype.toLowerCase on a sequence of character codes (ASCII).
ToLowerCase(s) == [i \in DOMAIN s |-> IF s[i] >= 65 /\ s[i] <= 90 THEN s[i] + 32 ELSE s[i]]

\* Number.prototype.toString / template interpolation of a non-negative integer:
\* its decimal digits as character codes.
RECURSIVE NumToString(_)
NumToString(n) ==
    IF n < 10 THEN <<48 + n>> ELSE Append(NumToString(n \div 10), 48 + (n % 10))

IsDigit(c) == c >= 48 /\ c <= 57

\* The longest prefix of s made of digits.
RECURSIVE DigitPrefix(_)
DigitPrefix(s) ==
    IF s = <<>> \/ ~IsDigit(Head(s)) THEN <<>> ELSE <<Head(s)>> \o DigitPrefix(Tail(s))

RECURSIVE DigitsValue(_)
DigitsValue(d) ==
    IF d = <<>> THEN 0 ELSE 10 * DigitsValue(SubSeq(d, 1, Len(d) - 1)) + (d[Len(d)] - 48)

\* parseInt(s): the value of the leading digits; NaN (here -1) when there is none.
NaN == -1
ParseInt(s) == IF DigitPrefix(s) = <<>> THEN NaN ELSE DigitsValue(DigitPrefix(s))

\* Lexicographic order on sequences of character codes.
RECURSIVE SeqLess(_, _)
SeqLess(a, b) ==
    IF b = <<>> THEN FALSE
    ELSE IF a = <<>> THEN TRUE
    ELSE IF Head(a) # Head(b) THEN Head(a) < Head(b)
    ELSE SeqLess(Tail(a), Tail(b))

\* All orderings of a finite set as sequences.
Orderings(S) ==
    {s \in [1..Cardinality(S) -> S] : \A i, j \in 1..Cardinality(S) : i # j => s[i] # s[j]}

Range(s) == {s[i] : i \in DOMAIN s}

(***************************************************************************)
(* Texts of the program.                                                   *)
(***************************************************************************)
\* 'dr.wilson@healthcare.com'
SeedEmail1 == <<100,114,46,119,105,108,115,111,110,64,104,101,97,108,116,104,99,97,114,101,46,99,111,109>>
\* 'support@muudhealth.com'
SeedEmail2 == <<115,117,112,112,111,114,116,64,109,117,117,100,104,101,97,108,116,104,46,99,111,109>>
\* 'Dr. Sarah Wilson'
SeedName1 == <<68,114,46,32,83,97,114,97,104,32,87,105,108,115,111,110>>
\* 'MUUD Health Support'
SeedName2 == <<77,85,85,68,32,72,101,97,108,116,104,32,83,117,112,112,111,114,116>>
SeedText1 == "Welcome to MUUD Health! Your backend is now connected and working."
SeedText2 == "The database connection is secure and all API endpoints are functional."

\* Inputs: 'Dr.Wilson@Healthcare.com' (the first seeded address in another case),
\* 'a@b.co', 'A@b.co', and 'ab', which is no e-mail address.
EmailSeedUpper == <<68,114,46,87,105,108,115,111,110,64,72,101,97,108,116,104,99,97,114,101,46,99,111,109>>
EmailA == <<97,64,98,46,99,111>>
EmailAUpper == <<65,64,98,46,99,111>>
EmailBad == <<97,98>>
\* Inputs: 'Ann', 'bob'.
NameAnn == <<65,110,110>>
NameBob == <<98,111,98>>

MsgValidation == "Validation error"
MsgDuplicate == "Contact with this email already exists for this user"
MsgEntryNotFound == "Journal entry not found"
MsgDbLost == "Database connection lost"

(***************************************************************************)
(* The storage engine: what one SQL statement does.  dbst is the state of  *)
(* the connection for this round trip: "up", or the code of the error      *)
(* pool.query rejects with.                                                *)
(***************************************************************************)
DbStates == {"up", "ECONNREFUSED", "ETIMEDOUT"}

Db == [je |-> journal_entries, jseq |-> journal_seq, ct |-> contacts, cseq |-> contacts_seq]

\* Variant: ids are not drawn from a sequence but are one more than the largest
\* id in the table, so the id of a deleted latest row is given out again.
InsertJournalEntry_ReuseId(db, user_id, entry_text, mood_rating, timestamp, dbst) ==
    IF dbst # "up" THEN [db |-> db, error |-> dbst]
    ELSE LET id == IF db.je = {} THEN 1
                   ELSE (CHOOSE m \in {r.id : r \in db.je} :
                            \A r \in db.je : r.id <= m) + 1
             row == [id |-> id, user_id |-> user_id, entry_text |-> entry_text,
                     mood_rating |-> mood_rating, timestamp |-> timestamp]
         IN  IF ~(mood_rating >= 1 /\ mood_rating <= 5)
             THEN [db |-> [db EXCEPT !.jseq = db.jseq + 1], error |-> "23514"]
             ELSE [db |-> [db EXCEPT !.jseq = db.jseq + 1, !.je = @ \cup {row}],
                   error |-> "", row |-> row]

\* INSERT INTO journal_entries (...) VALUES ($1,$2,$3,$4) RETURNING id, timestamp
\* on a table with id SERIAL PRIMARY KEY and CHECK (mood_rating >= 1 AND mood_rating <= 5).
\* The sequence is advanced before the constraint is checked and is not rolled back.
InsertJournalEntry(db, user_id, entry_text, mood_rating, timestamp, dbst) ==
    IF dbst # "up" THEN [db |-> db, error |-> dbst]
    ELSE LET id == db.jseq + 1
             row == [id |-> id, user_id |-> user_id, entry_text |-> entry_text,
                     mood_rating |-> mood_rating, timestamp |-> timestamp]
         IN  IF ~(mood_rating >= 1 /\ mood_rating <= 5)
             THEN [db |-> [db EXCEPT !.jseq = id], error |-> "23514"]
             ELSE [db |-> [db EXCEPT !.jseq = id, !.je = @ \cup {row}],
                   error |-> "", row |-> row]

\* Variant: DELETE FROM journal_entries WHERE id <= $1 RETURNING id
DeleteJournalRow_UpTo(db, id, dbst) ==
    IF dbst # "up" THEN [db |-> db, error |-> dbst]
    ELSE [db |-> [db EXCEPT !.je = {r \in @ : r.id > id}], error |-> "",
          rows |-> {r.id : r \in {x \in db.je : x.id <= id}}]

\* DELETE FROM journal_entries WHERE id = $1 RETURNING id
DeleteJournalRow(db, id, dbst) ==
    IF dbst # "up" THEN [db |-> db, error |-> dbst]
    ELSE [db |-> [db EXCEPT !.je = {r \in @ : r.id # id}], error |-> "",
          rows |-> {r.id : r \in {x \in db.je : x.id = id}}]

\* Variant: the table has no unique_user_email constraint.
InsertContact_NoUnique(db, user_id, contact_name, contact_email, t, dbst) ==
    IF dbst # "up" THEN [db |-> db, error |-> dbst]
    ELSE LET id == db.cseq + 1
             row == [id |-> id, user_id |-> user_id, contact_name |-> contact_name,
                     contact_email |-> contact_email, created_at |-> t]
         IN  [db |-> [db EXCEPT !.cseq = id, !.ct = @ \cup {row}],
              error |-> "", row |-> row]

\* INSERT INTO contacts (...) VALUES ($1,$2,$3) RETURNING id, created_at
\* on a table with id SERIAL PRIMARY KEY, created_at DEFAULT CURRENT_TIMESTAMP and
\* CONSTRAINT unique_user_email UNIQUE(user_id, contact_email).
InsertContact(db, user_id, contact_name, contact_email, t, dbst) ==
    IF dbst # "up" THEN [db |-> db, error |-> dbst]
    ELSE LET id == db.cseq + 1
             row == [id |-> id, user_id |-> user_id, contact_name |-> contact_name,
                     contact_email |-> contact_email, created_at |-> t]
         IN  IF \E c \in db.ct : c.user_id = user_id /\ c.contact_email = contact_email
             THEN [db |-> [db EXCEPT !.cseq = id], error |-> "23505"]
             ELSE [db |-> [db EXCEPT !.cseq = id, !.ct = @ \cup {row}],
                   error |-> "", row |-> row]

\* Variant: ORDER BY timestamp ASC.
SelectJournalEntries_Asc(db, userId) ==
    LET rows == {[id |-> r.id, entry_text |-> r.entry_text, mood_rating |-> r.mood_rating,
                  timestamp |-> r.timestamp] : r \in {x \in db.je : x.user_id = userId}}
    IN  {s \in Orderings(rows) :
            \A i \in 1..(Len(s) - 1) : s[i].timestamp <= s[i + 1].timestamp}

\* SELECT id, entry_text, mood_rating, timestamp FROM journal_entries
\* WHERE user_id = $1 ORDER BY timestamp DESC: every order of the matching rows that
\* is descending in timestamp (rows with equal timestamps come in any order).
SelectJournalEntries(db, userId) ==
    LET rows == {[id |-> r.id, entry_text |-> r.entry_text, mood_rating |-> r.mood_rating,
                  timestamp |-> r.timestamp] : r \in {x \in db.je : x.user_id = userId}}
    IN  {s \in Orderings(rows) :
            \A i \in 1..(Len(s) - 1) : s[i].timestamp >= s[i + 1].timestamp}

\* SELECT id, contact_name, contact_email, created_at FROM contacts
\* WHERE user_id = $1 ORDER BY contact_name ASC
SelectContacts(db, userId) ==
    LET rows == {[id |-> r.id, contact_name |-> r.contact_name,
                  contact_email |-> r.contact_email, created_at |-> r.created_at]
                 : r \in {x \in db.ct : x.user_id = userId}}
    IN  {s \in Orderings(rows) :
            \A i \in 1..(Len(s) - 1) : ~SeqLess(s[i + 1].contact_name, s[i].contact_name)}

(***************************************************************************)
(* The domain service: validation and the handlers of backend/server.js.   *)
(* A request body is a record of the fields sent; a handler yields the     *)
(* database after the request and the response.                            *)
(***************************************************************************)
\* Joi.string().email(): one '@', a non-empty local part, and a domain of at least
\* two non-empty labels separated by '.'.
IsEmail(s) ==
    /\ Cardinality({i \in DOMAIN s : s[i] = 64}) = 1
    /\ LET at == CHOOSE i \in DOMAIN s : s[i] = 64
           dots == {i \in DOMAIN s : i > at /\ s[i] = 46}
       IN  /\ at > 1
           /\ dots # {}
           /\ \A i \in dots : i > at + 1 /\ i < Len(s) /\ s[i + 1] # 46

\* Variant: mood_rating has no .max(5).
journalEntrySchema_NoMax(body) ==
    /\ "user_id" \in DOMAIN body
    /\ "entry_text" \in DOMAIN body /\ body.entry_text # ""
    /\ "mood_rating" \in DOMAIN body /\ body.mood_rating >= 1

\* journalEntrySchema.validate(body).error is undefined.
journalEntrySchema(body) ==
    /\ "user_id" \in DOMAIN body
    /\ "entry_text" \in DOMAIN body /\ body.entry_text # ""
    /\ "mood_rating" \in DOMAIN body /\ body.mood_rating >= 1 /\ body.mood_rating <= 5

\* contactSchema.validate(body).error is undefined.
contactSchema(body) ==
    /\ "user_id" \in DOMAIN body
    /\ "contact_name" \in DOMAIN body /\ body.contact_name # <<>>
    /\ "contact_email" \in DOMAIN body /\ IsEmail(body.contact_email)

handleError(code, message) ==
    IF code = "ECONNREFUSED"
    THEN [status |-> 503, success |-> FALSE, message |-> MsgDbLost]
    ELSE [status |-> 500, success |-> FALSE, message |-> message]

\* Variant: the response carries the instant of the request, not the stored one.
PostJournalEntryHandler_NowStamp(db, body, dbst, t) ==
    IF ~journalEntrySchema(body)
    THEN [db |-> db, res |-> [status |-> 400, success |-> FALSE, message |-> MsgValidation]]
    ELSE LET entryTimestamp == IF "timestamp" \in DOMAIN body THEN body.timestamp ELSE t
             result == InsertJournalEntry(db, body.user_id, body.entry_text,
                                          body.mood_rating, entryTimestamp, dbst)
         IN  IF result.error = ""
             THEN [db |-> result.db,
                   res |-> [status |-> 201, success |-> TRUE,
                            message |-> "Journal entry created successfully",
                            entry_id |-> result.row.id, timestamp |-> t]]
             ELSE [db |-> result.db,
                   res |-> handleError(result.error, "Failed to create journal entry")]

\* app.post('/journal/entry')
PostJournalEntryHandler(db, body, dbst, t) ==
    IF ~journalEntrySchema(body)
    THEN [db |-> db, res |-> [status |-> 400, success |-> FALSE, message |-> MsgValidation]]
    ELSE LET entryTimestamp == IF "timestamp" \in DOMAIN body THEN body.timestamp ELSE t
             result == InsertJournalEntry(db, body.user_id, body.entry_text,
                                          body.mood_rating, entryTimestamp, dbst)
         IN  IF result.error = ""
             THEN [db |-> result.db,
                   res |-> [status |-> 201, success |-> TRUE,
                            message |-> "Journal entry created successfully",
                            entry_id |-> result.row.id, timestamp |-> result.row.timestamp]]
             ELSE [db |-> result.db,
                   res |-> handleError(result.error, "Failed to create journal entry")]

\* app.get('/journal/user/:id'): the responses the handler can give.
GetJournalUserHandler(db, id, dbst) ==
    LET userId == ParseInt(id)
    IN  IF userId = NaN
        THEN {[status |-> 400, success |-> FALSE, message |-> "Invalid user ID"]}
        ELSE IF dbst # "up"
        THEN {handleError(dbst, "Failed to retrieve journal entries")}
        ELSE {[status |-> 200, success |-> TRUE, entries |-> rows, count |-> Len(rows)]
              : rows \in SelectJournalEntries(db, userId)}

\* app.delete('/journal/entry/:id')
DeleteJournalEntryHandler(db, id, dbst) ==
    LET entryId == ParseInt(id)
    IN  IF entryId = NaN
        THEN [db |-> db, res |-> [status |-> 400, success |-> FALSE, message |-> "Invalid entry ID"]]
        ELSE LET result == DeleteJournalRow(db, entryId, dbst)
             IN  IF result.error # ""
                 THEN [db |-> result.db,
                       res |-> handleError(result.error, "Failed to delete journal entry")]
                 ELSE IF result.rows = {}
                 THEN [db |-> result.db,
                       res |-> [status |-> 404, success |-> FALSE, message |-> MsgEntryNotFound]]
                 ELSE [db |-> result.db,
                       res |-> [status |-> 200, success |-> TRUE,
                                message |-> "Journal entry deleted successfully"]]

\* app.post('/contacts/add')
PostContactsAddHandler(db, body, dbst, t) ==
    IF ~contactSchema(body)
    THEN [db |-> db, res |-> [status |-> 400, success |-> FALSE, message |-> MsgValidation]]
    ELSE LET result == InsertContact(db, body.user_id, body.contact_name,
                                     ToLowerCase(body.contact_email), t, dbst)
         IN  IF result.error = ""
             THEN [db |-> result.db,
                   res |-> [status |-> 201, success |-> TRUE,
                            message |-> "Contact added successfully",
                            contact_id |-> result.row.id, created_at |-> result.row.created_at]]
             ELSE IF result.error = "23505"
             THEN [db |-> result.db,
                   res |-> [status |-> 409, success |-> FALSE, message |-> MsgDuplicate]]
             ELSE [db |-> result.db, res |-> handleError(result.error, "Failed to add contact")]

\* app.get('/contacts/user/:id'): the responses the handler can give.
GetContactsUserHandler(db, id, dbst) ==
    LET userId == ParseInt(id)
    IN  IF userId = NaN
        THEN {[status |-> 400, success |-> FALSE, message |-> "Invalid user ID"]}
        ELSE IF dbst # "up"
        THEN {handleError(dbst, "Failed to retrieve contacts")}
        ELSE {[status |-> 200, success |-> TRUE, contacts |-> rows, count |-> Len(rows)]
              : rows \in SelectContacts(db, userId)}

\* initializeDatabase, the tables existing: the sample rows go into an empty table.
SeedDatabase(db, t) ==
    LET j == IF db.je # {} THEN db
             ELSE [db EXCEPT
                     !.jseq = @ + 2,
                     !.je = {[id |-> db.jseq + 1, user_id |-> 1, entry_text |-> SeedText1,
                              mood_rating |-> 5, timestamp |-> t - HourMs],
                             [id |-> db.jseq + 2, user_id |-> 1, entry_text |-> SeedText2,
                              mood_rating |-> 4, timestamp |-> t - (HourMs \div 2)]}]
    IN  IF j.ct # {} THEN j
        ELSE [j EXCEPT
                !.cseq = @ + 2,
                !.ct = {[id |-> j.cseq + 1, user_id |-> 1, contact_name |-> SeedName1,
                         contact_email |-> SeedEmail1, created_at |-> t],
                        [id |-> j.cseq + 2, user_id |-> 1, contact_name |-> SeedName2,
                         contact_email |-> SeedEmail2, created_at |-> t]}]

EmptyDb == [je |-> {}, jseq |-> 0, ct |-> {}, cseq |-> 0]

(***************************************************************************)
(* utils/storage.js: the local persisted store.  st is the content of      *)
(* AsyncStorage; sf is the fault of AsyncStorage during the call: "none",  *)
(* "read" (getItem rejects) or "write" (setItem rejects).                  *)
(***************************************************************************)
StorageFaults == {"none", "read", "write"}

St == [entries |-> local_entries, contacts |-> local_contacts, user_id |-> local_user_id]

\* Object spread: {...a, ...b}.
Merge(a, b) == [k \in (DOMAIN a) \cup (DOMAIN b) |-> IF k \in DOMAIN b THEN b[k] ELSE a[k]]

\* saveJournalEntries: a rejected setItem is logged and swallowed.
saveJournalEntries(st, entries, sf) ==
    IF sf = "write" THEN st ELSE [st EXCEPT !.entries = entries]

\* getJournalEntries: a missing key or a rejected getItem reads as [].
getJournalEntries(st, sf) == IF sf = "read" THEN <<>> ELSE st.entries

\* addJournalEntry
addJournalEntry(st, entry, t, sf) ==
    LET entries == getJournalEntries(st, sf)
        newEntry == Merge(Merge([id |-> NumToString(t)], entry),
                          [timestamp |-> IF "timestamp" \in DOMAIN entry
                                         THEN entry.timestamp ELSE t])
    IN  [st |-> saveJournalEntries(st, <<newEntry>> \o entries, sf),
         outcome |-> "returned", value |-> newEntry]

\* Variant: an id that is not found is not an error.
deleteJournalEntry_NoThrow(st, entryId, sf) ==
    LET entries == getJournalEntries(st, sf)
        updatedEntries == SelectSeq(entries, LAMBDA entry : entry.id # entryId)
    IN  [st |-> saveJournalEntries(st, updatedEntries, sf),
         outcome |-> "returned", value |-> TRUE]

\* deleteJournalEntry: entryId is String(entryId).
deleteJournalEntry(st, entryId, sf) ==
    LET entries == getJournalEntries(st, sf)
        updatedEntries == SelectSeq(entries, LAMBDA entry : entry.id # entryId)
    IN  IF Len(updatedEntries) = Len(entries)
        THEN [st |-> st, outcome |-> "raised", value |-> "Entry with ID not found"]
        ELSE [st |-> saveJournalEntries(st, updatedEntries, sf),
              outcome |-> "returned", value |-> TRUE]

\* saveContacts
saveContacts(st, cs, sf) == IF sf = "write" THEN st ELSE [st EXCEPT !.contacts = cs]

\* getContacts
getContacts(st, sf) == IF sf = "read" THEN <<>> ELSE st.contacts

\* a.localeCompare(b) < 0 for ASCII texts: letters compare without case first; texts
\* that differ in case only have the lower-case letter first.
LocaleLess(a, b) ==
    IF ToLowerCase(a) # ToLowerCase(b) THEN SeqLess(ToLowerCase(a), ToLowerCase(b))
    ELSE SeqLess(b, a)

\* Array.prototype.sort((a, b) => a.contact_name.localeCompare(b.contact_name)): stable.
RECURSIVE SortByName(_)
SortByName(cs) ==
    IF cs = <<>> THEN <<>>
    ELSE LET rest == SortByName(Tail(cs))
             k == Cardinality({i \in DOMAIN rest :
                                 LocaleLess(rest[i].contact_name, Head(cs).contact_name)})
         IN  SubSeq(rest, 1, k) \o <<Head(cs)>> \o SubSeq(rest, k + 1, Len(rest))

\* addContact
addContact(st, contact, t, sf) ==
    LET cs == getContacts(st, sf)
        newContact == Merge(Merge([id |-> NumToString(t)], contact), [created_at |-> t])
    IN  [st |-> saveContacts(st, SortByName(Append(cs, newContact)), sf),
         outcome |-> "returned", value |-> newContact]

\* getUserId: '1' is created and persisted on first use.
getUserId(st, sf) ==
    IF sf = "read" THEN [st |-> st, value |-> <<49>>]
    ELSE IF st.user_id # <<>> THEN [st |-> st, value |-> st.user_id]
    ELSE [st |-> IF sf = "write" THEN st ELSE [st EXCEPT !.user_id = <<49>>],
          value |-> <<49>>]

\* Variant: clearAllData removes every key of the store.
clearAllDataStore_EveryKey(st, sf) ==
    IF sf = "write" THEN st
    ELSE [st EXCEPT !.entries = <<>>, !.contacts = <<>>, !.user_id = <<>>]

\* clearAllData: multiRemove of the keys of the entries and the contacts; a rejection
\* is logged and swallowed.
clearAllDataStore(st, sf) ==
    IF sf = "write" THEN st ELSE [st EXCEPT !.entries = <<>>, !.contacts = <<>>]

\* The ids of the sample records: '1', '2', '3'.
SampleIds == {<<49>>, <<50>>, <<51>>}

sampleEntries(t) ==
    << [id |-> <<49>>, user_id |-> 1, mood_rating |-> 5, timestamp |-> t - DayMs,
        entry_text |-> "Had a great day today! Felt really productive and accomplished a lot of my goals."],
       [id |-> <<50>>, user_id |-> 1, mood_rating |-> 3, timestamp |-> t - 2 * DayMs,
        entry_text |-> "Feeling a bit stressed about work deadlines, but trying to stay positive."],
       [id |-> <<51>>, user_id |-> 1, mood_rating |-> 4, timestamp |-> t - 3 * DayMs,
        entry_text |-> "Spent quality time with family. Really helped me relax and recharge."] >>

sampleContacts(t) ==
    << [id |-> <<49>>, user_id |-> 1, created_at |-> t,
        \* 'Dr. Smith', 'dr.smith@healthcare.com'
        contact_name |-> <<68,114,46,32,83,109,105,116,104>>,
        contact_email |-> <<100,114,46,115,109,105,116,104,64,104,101,97,108,116,104,99,97,114,101,46,99,111,109>>],
       [id |-> <<50>>, user_id |-> 1, created_at |-> t,
        \* 'Sarah Johnson', 'sarah.j@email.com'
        contact_name |-> <<83,97,114,97,104,32,74,111,104,110,115,111,110>>,
        contact_email |-> <<115,97,114,97,104,46,106,64,101,109,97,105,108,46,99,111,109>>],
       [id |-> <<51>>, user_id |-> 1, created_at |-> t,
        \* 'Mike Chen', 'mike.chen@email.com'
        contact_name |-> <<77,105,107,101,32,67,104,101,110>>,
        contact_email |-> <<109,105,107,101,46,99,104,101,110,64,101,109,97,105,108,46,99,111,109>>] >>

\* initializeSampleData
initializeSampleDataStore(st, t, sf) ==
    LET entries == getJournalEntries(st, sf)
        cs == getContacts(st, sf)
        s1 == IF Len(entries) = 0 THEN saveJournalEntries(st, sampleEntries(t), sf) ELSE st
    IN  IF Len(cs) = 0 THEN saveContacts(s1, sampleContacts(t), sf) ELSE s1

(***************************************************************************)
(* services/api.js: the data-access layer, in its three revisions:         *)
(*   "apiCall"  the backend-connection revision (apiCall, USE_BACKEND),    *)
(*   "callAPI"  the auto-IP-detection revision (callAPI),                  *)
(*   "fetch"    the first revision (plain fetch, USE_LOCAL_STORAGE).       *)
(* sc is what happens to the one network request of a call:                *)
(*   "ok"          the service answers and the answer arrives,             *)
(*   "db_refused"  the service answers, its storage refusing connections,  *)
(*   "db_error"    the service answers, its storage round trip failing,    *)
(*   "neterr"      fetch rejects, the request never reaching the service,  *)
(*   "timeout"     the abort timer fires, the service not reached,         *)
(*   "lost"        the service handles the request, the timer fires        *)
(*                 before the answer arrives,                              *)
(*   "badbody"     the service handles the request, the body of the        *)
(*                 answer cannot be parsed.                                *)
(***************************************************************************)
Revisions == {"apiCall", "callAPI", "fetch"}
Scenarios == {"ok", "db_refused", "db_error", "neterr", "timeout", "lost", "badbody"}

\* const USE_BACKEND = true (backend-connection revision).
USE_BACKEND == TRUE
\* const USE_LOCAL_STORAGE = true (first revision).
USE_LOCAL_STORAGE == TRUE

\* Whether a call of revision r goes to the local store without a network request.
LocalOnly(r) ==
    CASE r = "apiCall" -> ~USE_BACKEND
      [] r = "callAPI" -> FALSE
      [] OTHER -> USE_LOCAL_STORAGE

\* What can happen to the network request of a call of revision r: a call that goes
\* to the local store makes none.
ScenariosOf(r) == IF LocalOnly(r) THEN {"none"} ELSE Scenarios

\* The service's handling of one request: the set of (database, response) it can yield.
ServerHandle(db, req, dbst, t) ==
    CASE req.route = "POST /journal/entry" -> {PostJournalEntryHandler(db, req.body, dbst, t)}
      [] req.route = "GET /journal/user/:id" ->
            {[db |-> db, res |-> r] : r \in GetJournalUserHandler(db, req.id, dbst)}
      [] req.route = "DELETE /journal/entry/:id" -> {DeleteJournalEntryHandler(db, req.id, dbst)}
      [] req.route = "POST /contacts/add" -> {PostContactsAddHandler(db, req.body, dbst, t)}
      [] req.route = "GET /contacts/user/:id" ->
            {[db |-> db, res |-> r] : r \in GetContactsUserHandler(db, req.id, dbst)}

\* response.ok
Is2xx(status) == status >= 200 /\ status <= 299

\* The Error a failed remote attempt throws, by what its message contains: body is
\* the message of the service's envelope when the Error's message carries it (else
\* ""), shows_status tells whether the Error's message spells the HTTP status.
NoResponseError == [body |-> "", shows_status |-> FALSE]

\* The Error thrown for a response that is not ok.  apiCall: errorData.message, or
\* 'HTTP <status>: <statusText>' when the body cannot be parsed; callAPI:
\* 'API Error <status>: <text of the body>'.
ResponseError(rv, res, parsable) ==
    [body |-> IF parsable THEN res.message ELSE "",
     shows_status |-> rv = "callAPI" \/ ~parsable]

\* apiCall / callAPI: the remote attempt of one call.  Yields the database after it,
\* the HTTP status of the response (0 when the service gave none) and either the
\* parsed body (ok) or the Error thrown.
apiCall(db, req, rv, sc, t) ==
    IF sc \in {"neterr", "timeout"}
    THEN {[db |-> db, ok |-> FALSE, status |-> 0, error |-> NoResponseError]}
    ELSE LET dbst == CASE sc = "db_refused" -> "ECONNREFUSED"
                       [] sc = "db_error" -> "ETIMEDOUT"
                       [] OTHER -> "up"
         IN  {  IF sc = "lost"
                THEN [db |-> h.db, ok |-> FALSE, status |-> h.res.status,
                      error |-> NoResponseError]
                ELSE IF ~Is2xx(h.res.status)
                THEN [db |-> h.db, ok |-> FALSE, status |-> h.res.status,
                      error |-> ResponseError(rv, h.res, sc # "badbody")]
                ELSE IF sc = "badbody"
                THEN [db |-> h.db, ok |-> FALSE, status |-> h.res.status,
                      error |-> NoResponseError]
                ELSE [db |-> h.db, ok |-> TRUE, status |-> h.res.status, data |-> h.res]
              : h \in ServerHandle(db, req, dbst, t) }

\* error.message.includes('already exists')
IncludesAlreadyExists(r) == r.error.body = MsgDuplicate

\* error.message.includes('409')
Includes409(r) == r.error.shows_status /\ r.status = 409

\* Variant: the catch block of addContact always falls back.
RethrowsDuplicate_Never(rv, r) == FALSE

\* Whether the catch block of addContact throws instead of falling back.
RethrowsDuplicate(rv, r) ==
    CASE rv = "apiCall" -> IncludesAlreadyExists(r)
      [] rv = "callAPI" -> IncludesAlreadyExists(r) \/ Includes409(r)
      [] OTHER -> FALSE

\* The result of a call that went to the service and succeeded there.
Remote(r, st, value) ==
    [db |-> r.db, st |-> st, outcome |-> "returned", via |-> "remote",
     status |-> r.status, value |-> value]

\* The result of a call that was served by the local store.
Local(db, status, l) ==
    [db |-> db, st |-> l.st, outcome |-> l.outcome, via |-> "local",
     status |-> status, value |-> l.value]

\* journalAPI.getEntries / getJournalEntriesAPI
journalAPI_getEntries(db, st, t, rv, sc, sf) ==
    IF LocalOnly(rv)
    THEN {Local(db, 0, [st |-> st, outcome |-> "returned", value |-> getJournalEntries(st, sf)])}
    ELSE LET u == getUserId(st, sf)
         IN  { IF r.ok /\ (rv = "callAPI" \/ r.data.success)
               THEN Remote(r, u.st, r.data.entries)
               ELSE Local(r.db, r.status, [st |-> u.st, outcome |-> "returned",
                                           value |-> getJournalEntries(u.st, sf)])
             : r \in apiCall(db, [route |-> "GET /journal/user/:id", id |-> u.value], rv, sc, t) }

\* Variant: the catch block of createEntry throws the error again.
journalAPI_createEntry_NoFallback(db, st, entryData, t, rv, sc, sf) ==
    LET u == getUserId(st, sf)
        entry == Merge(entryData, [user_id |-> ParseInt(u.value)])
        requestData == IF rv = "apiCall" THEN Merge(entry, [timestamp |-> t]) ELSE entry
    IN  IF LocalOnly(rv)
        THEN {Local(db, 0, addJournalEntry(u.st, entry, t, sf))}
        ELSE { IF r.ok /\ (rv = "callAPI" \/ r.data.success)
               THEN Remote(r, u.st, Merge(Merge([id |-> r.data.entry_id], entryData),
                                          [user_id |-> ParseInt(u.value),
                                           timestamp |-> r.data.timestamp]))
               ELSE [db |-> r.db, st |-> u.st, outcome |-> "raised", via |-> "remote",
                     status |-> r.status, value |-> "failed"]
             : r \in apiCall(db, [route |-> "POST /journal/entry", body |-> requestData], rv, sc, t) }

\* journalAPI.createEntry / createJournalEntryAPI
journalAPI_createEntry(db, st, entryData, t, rv, sc, sf) ==
    LET u == getUserId(st, sf)
        entry == Merge(entryData, [user_id |-> ParseInt(u.value)])
        requestData == IF rv = "apiCall" THEN Merge(entry, [timestamp |-> t]) ELSE entry
    IN  IF LocalOnly(rv)
        THEN {Local(db, 0, addJournalEntry(u.st, entry, t, sf))}
        ELSE { IF r.ok /\ (rv = "callAPI" \/ r.data.success)
               THEN Remote(r, u.st, Merge(Merge([id |-> r.data.entry_id], entryData),
                                          [user_id |-> ParseInt(u.value),
                                           timestamp |-> r.data.timestamp]))
               ELSE Local(r.db, r.status, addJournalEntry(u.st, entry, t, sf))
             : r \in apiCall(db, [route |-> "POST /journal/entry", body |-> requestData], rv, sc, t) }

\* Variant: the catch block of deleteEntry throws a timeout again.
journalAPI_deleteEntry_TimeoutThrows(db, st, entryId, t, rv, sc, sf) ==
    IF LocalOnly(rv)
    THEN {Local(db, 0, deleteJournalEntry(st, entryId, sf))}
    ELSE { IF r.ok /\ (rv = "callAPI" \/ r.data.success)
           THEN Remote(r, st, TRUE)
           ELSE IF sc \in {"timeout", "lost"}
           THEN [db |-> r.db, st |-> st, outcome |-> "raised", via |-> "remote",
                 status |-> r.status, value |-> "Request timed out"]
           ELSE Local(r.db, r.status, deleteJournalEntry(st, entryId, sf))
         : r \in apiCall(db, [route |-> "DELETE /journal/entry/:id", id |-> entryId], rv, sc, t) }

\* journalAPI.deleteEntry / deleteJournalEntryAPI: entryId as the text the URL and
\* String(entryId) give.
journalAPI_deleteEntry(db, st, entryId, t, rv, sc, sf) ==
    IF LocalOnly(rv)
    THEN {Local(db, 0, deleteJournalEntry(st, entryId, sf))}
    ELSE { IF r.ok /\ (rv = "callAPI" \/ r.data.success)
           THEN Remote(r, st, TRUE)
           ELSE Local(r.db, r.status, deleteJournalEntry(st, entryId, sf))
         : r \in apiCall(db, [route |-> "DELETE /journal/entry/:id", id |-> entryId], rv, sc, t) }

\* contactsAPI.getContacts / getContactsAPI
contactsAPI_getContacts(db, st, t, rv, sc, sf) ==
    IF LocalOnly(rv)
    THEN {Local(db, 0, [st |-> st, outcome |-> "returned", value |-> getContacts(st, sf)])}
    ELSE LET u == getUserId(st, sf)
         IN  { IF r.ok /\ (rv = "callAPI" \/ r.data.success)
               THEN Remote(r, u.st, r.data.contacts)
               ELSE Local(r.db, r.status, [st |-> u.st, outcome |-> "returned",
                                           value |-> getContacts(u.st, sf)])
             : r \in apiCall(db, [route |-> "GET /contacts/user/:id", id |-> u.value], rv, sc, t) }

\* contactsAPI.addContact / addContactAPI
contactsAPI_addContact(db, st, contactData, t, rv, sc, sf) ==
    LET u == getUserId(st, sf)
        contact == Merge(contactData, [user_id |-> ParseInt(u.value)])
    IN  IF LocalOnly(rv)
        THEN {Local(db, 0, addContact(u.st, contact, t, sf))}
        ELSE { IF r.ok /\ (rv = "callAPI" \/ r.data.success)
               THEN Remote(r, u.st, Merge(Merge([id |-> r.data.contact_id], contactData),
                                          [user_id |-> ParseInt(u.value),
                                           created_at |-> r.data.created_at]))
               ELSE IF RethrowsDuplicate(rv, r)
               THEN [db |-> r.db, st |-> u.st, outcome |-> "raised", via |-> "remote",
                     status |-> r.status, value |-> "already exists"]
               ELSE Local(r.db, r.status, addContact(u.st, contact, t, sf))
             : r \in apiCall(db, [route |-> "POST /contacts/add", body |-> contact], rv, sc, t) }

\* The outcomes of operation op of the data-access layer, by name.
OutcomesOf(op, db, st, arg, t, rv, sc, sf) ==
    CASE op = "getEntries" -> journalAPI_getEntries(db, st, t, rv, sc, sf)
      [] op = "createEntry" -> journalAPI_createEntry(db, st, arg, t, rv, sc, sf)
      [] op = "deleteEntry" -> journalAPI_deleteEntry(db, st, arg, t, rv, sc, sf)
      [] op = "getContacts" -> contactsAPI_getContacts(db, st, t, rv, sc, sf)
      [] op = "addContact" -> contactsAPI_addContact(db, st, arg, t, rv, sc, sf)

ClientOps == {"getEntries", "createEntry", "deleteEntry", "getContacts", "addContact"}

(***************************************************************************)
(* Inputs.                                                                 *)
(***************************************************************************)
UserIds == {1, 2}
\* entry_text and mood_rating of the bodies sent: two valid pairs, an empty text, a
\* mood out of range
EntryInputs == {<<"Test", 4>>, <<"Hi", 5>>, <<"", 4>>, <<"Test", 0>>}
\* moods of the validation check: every integer of [-10, 20]
AllMoods == (0 - 10)..20
\* instants a caller sends: before the sample rows, and the current one
CallerTimes == {StartTime - (2 * HourMs), StartTime}

JournalBodies ==
    {[user_id |-> u, entry_text |-> x[1], mood_rating |-> x[2]]
        : u \in UserIds, x \in EntryInputs}
    \cup {[user_id |-> u, entry_text |-> x[1], mood_rating |-> x[2], timestamp |-> ts]
        : u \in UserIds, x \in EntryInputs, ts \in CallerTimes}

MoodBodies == {[user_id |-> 1, entry_text |-> "Test", mood_rating |-> m] : m \in AllMoods}

\* The service after startServer: connected, initialised and listening.
ServerUp ==
    [pc |-> "up", attempt |-> 1, failed |-> 0, waits |-> 0,
     connected |-> "true", initialized |-> "true", listening |-> TRUE]

\* The database after the first start of the service.
FirstStart == SeedDatabase(EmptyDb, StartTime)

\* Records created so far, and whether n more fit the bound.
Created ==
    (journal_seq - FirstStart.jseq) + (contacts_seq - FirstStart.cseq)
    + Cardinality({i \in DOMAIN local_entries : local_entries[i].id \notin SampleIds})
    + Cardinality({i \in DOMAIN local_contacts : local_contacts[i].id \notin SampleIds})
Room(n) == Created + n <= MaxCreates

\* ':id' of a URL: '1', '2', ... and 'x'.
UserIdParams == {NumToString(u) : u \in UserIds} \cup {<<120>>}
EntryIdParams == {NumToString(n) : n \in 1..(FirstStart.jseq + MaxCreates)} \cup {<<120>>}

ContactBodies ==
    {[user_id |-> u, contact_name |-> n, contact_email |-> e]
        : u \in UserIds, n \in {NameAnn, <<>>},
          e \in {EmailA, EmailAUpper, EmailSeedUpper, EmailBad}}

\* What the screens and other callers hand to the data-access layer.
EntryDataSet == {[entry_text |-> "Test", mood_rating |-> m] : m \in {0, 4}}
ContactDataSet ==
    {[contact_name |-> n, contact_email |-> e]
        : n \in {NameAnn}, e \in {EmailA, SeedEmail1, EmailBad}}
ClientEntryIds == {<<49>>} \cup {NumToString(t) : t \in StartTime..(StartTime + MaxTicks)}

(***************************************************************************)
(* The state after construction: the service has started on an empty       *)
(* database (initializeDatabase has put the sample rows in), the client    *)
(* is freshly installed.                                                   *)
(***************************************************************************)
InitServer ==
    LET db == FirstStart
    IN  /\ journal_entries = db.je
        /\ journal_seq = db.jseq
        /\ contacts = db.ct
        /\ contacts_seq = db.cseq
        /\ issued = {}
        /\ deleted_ids = {}
        /\ server = ServerUp
        /\ pool_out = 0

InitClient ==
    /\ local_entries = <<>>
    /\ local_contacts = <<>>
    /\ local_user_id = <<>>
    /\ call = [phase |-> "idle"]
    /\ API_BASE_URL = ""
    /\ tasks = [i \in {1, 2} |-> [pc |-> "idle"]]
    /\ screen_entries = [via |-> "none", ids |-> {}]
    /\ mode_asked = "none"

Init ==
    /\ InitServer
    /\ InitClient
    /\ now = StartTime
    /\ last = [op |-> "idle", rev |-> "apiCall"]

\* The client built from any of the revisions of services/api.js.
InitAnyRevision ==
    /\ InitServer
    /\ InitClient
    /\ now = StartTime
    /\ last \in {[op |-> "idle", rev |-> rv] : rv \in Revisions}

(***************************************************************************)
(* Steps.                                                                  *)
(***************************************************************************)
SetDb(db) ==
    /\ journal_entries' = db.je
    /\ journal_seq' = db.jseq
    /\ contacts' = db.ct
    /\ contacts_seq' = db.cseq

SetSt(st) ==
    /\ local_entries' = st.entries
    /\ local_contacts' = st.contacts
    /\ local_user_id' = st.user_id

\* No operation is in progress: the result of the last one has been taken.
Idle == last.op = "idle"

\* One request to the service, from any client.
\* The history variables record what the service has answered to such requests.
Request(route, req, h, dbst) ==
    /\ SetDb(h.db)
    /\ last' = [op |-> route, req |-> req, dbst |-> dbst, res |-> h.res, rev |-> last.rev]
    /\ issued' = IF route = "POST /journal/entry" /\ h.res.status = 201
                  THEN issued \cup {[id |-> h.res.entry_id, user_id |-> req.user_id,
                                      entry_text |-> req.entry_text,
                                      mood_rating |-> req.mood_rating]}
                  ELSE issued
    /\ deleted_ids' = IF route = "DELETE /journal/entry/:id" /\ h.res.status = 200
                       THEN deleted_ids \cup {ParseInt(req)}
                       ELSE deleted_ids
    /\ UNCHANGED <<local_entries, local_contacts, local_user_id, now, callVars>>

PostJournalEntry ==
    /\ Idle
    /\ Room(1)
    /\ \E body \in JournalBodies, dbst \in DbStates :
          Request("POST /journal/entry", body, PostJournalEntryHandler(Db, body, dbst, now), dbst)

\* POST /journal/entry with every mood of [-10, 20].
PostJournalEntryAnyMood ==
    /\ Idle
    /\ Room(1)
    /\ \E body \in MoodBodies, dbst \in DbStates :
          Request("POST /journal/entry", body, PostJournalEntryHandler(Db, body, dbst, now), dbst)

GetJournalUser ==
    /\ Idle
    /\ \E id \in UserIdParams, dbst \in DbStates :
          \E res \in GetJournalUserHandler(Db, id, dbst) :
             Request("GET /journal/user/:id", id, [db |-> Db, res |-> res], dbst)

DeleteJournalEntry ==
    /\ Idle
    /\ \E id \in EntryIdParams, dbst \in DbStates :
          Request("DELETE /journal/entry/:id", id, DeleteJournalEntryHandler(Db, id, dbst), dbst)

PostContactsAdd ==
    /\ Idle
    /\ Room(1)
    /\ \E body \in ContactBodies, dbst \in DbStates :
          Request("POST /contacts/add", body, PostContactsAddHandler(Db, body, dbst, now), dbst)

GetContactsUser ==
    /\ Idle
    /\ \E id \in UserIdParams, dbst \in DbStates :
          \E res \in GetContactsUserHandler(Db, id, dbst) :
             Request("GET /contacts/user/:id", id, [db |-> Db, res |-> res], dbst)

\* The service restarts: startServer runs initializeDatabase again.
InitializeDatabase ==
    /\ Idle
    /\ Room(SeedDatabase(Db, now).jseq - journal_seq + SeedDatabase(Db, now).cseq - contacts_seq)
    /\ SetDb(SeedDatabase(Db, now))
    /\ UNCHANGED <<local_entries, local_contacts, local_user_id, now, issued, deleted_ids,
                   callVars, last>>

\* A call of the data-access layer ends with outcome o.
Complete(op, arg, sc, sf, o) ==
    /\ SetDb(o.db)
    /\ SetSt(o.st)
    /\ last' = [op |-> op, arg |-> arg, sc |-> sc, sf |-> sf, outcome |-> o.outcome,
                via |-> o.via, status |-> o.status, value |-> o.value, rev |-> last.rev]
    /\ UNCHANGED <<now, issued, deleted_ids>>

\* One call of the data-access layer with outcome o, from its start to its end.
Call(op, arg, sc, sf, o) ==
    /\ Complete(op, arg, sc, sf, o)
    /\ UNCHANGED callVars

getEntries ==
    /\ Idle
    /\ \E sc \in ScenariosOf(last.rev), sf \in StorageFaults :
          \E o \in journalAPI_getEntries(Db, St, now, last.rev, sc, sf) :
             Call("getEntries", <<>>, sc, sf, o)

createEntry ==
    /\ Idle
    /\ Room(1)
    /\ \E entryData \in EntryDataSet, sc \in ScenariosOf(last.rev), sf \in StorageFaults :
          \E o \in journalAPI_createEntry(Db, St, entryData, now, last.rev, sc, sf) :
             Call("createEntry", entryData, sc, sf, o)

deleteEntry ==
    /\ Idle
    /\ \E entryId \in ClientEntryIds, sc \in ScenariosOf(last.rev), sf \in StorageFaults :
          \E o \in journalAPI_deleteEntry(Db, St, entryId, now, last.rev, sc, sf) :
             Call("deleteEntry", entryId, sc, sf, o)

getContactsCall ==
    /\ Idle
    /\ \E sc \in ScenariosOf(last.rev), sf \in StorageFaults :
          \E o \in contactsAPI_getContacts(Db, St, now, last.rev, sc, sf) :
             Call("getContacts", <<>>, sc, sf, o)

addContactCall ==
    /\ Idle
    /\ Room(1)
    /\ \E contactData \in ContactDataSet, sc \in ScenariosOf(last.rev), sf \in StorageFaults :
          \E o \in contactsAPI_addContact(Db, St, contactData, now, last.rev, sc, sf) :
             Call("addContact", contactData, sc, sf, o)

\* The calls of a client whose requests are all answered by the service, with a
\* working local store; entries with and without a timestamp of the caller, e-mail
\* addresses in upper and lower case.
EntryDataRemote ==
    EntryDataSet \cup {[entry_text |-> "Hi", mood_rating |-> 5,
                        timestamp |-> StartTime - (2 * HourMs)]}
ContactDataRemote ==
    {[contact_name |-> NameAnn, contact_email |-> e] : e \in {EmailA, EmailAUpper, SeedEmail1}}

getEntriesAnswered ==
    /\ Idle
    /\ \E o \in journalAPI_getEntries(Db, St, now, last.rev, "ok", "none") :
          Call("getEntries", <<>>, "ok", "none", o)

createEntryAnswered ==
    /\ Idle
    /\ Room(1)
    /\ \E entryData \in EntryDataRemote :
          \E o \in journalAPI_createEntry(Db, St, entryData, now, last.rev, "ok", "none") :
             Call("createEntry", entryData, "ok", "none", o)

deleteEntryAnswered ==
    /\ Idle
    /\ \E entryId \in ClientEntryIds :
          \E o \in journalAPI_deleteEntry(Db, St, entryId, now, last.rev, "ok", "none") :
             Call("deleteEntry", entryId, "ok", "none", o)

getContactsAnswered ==
    /\ Idle
    /\ \E o \in contactsAPI_getContacts(Db, St, now, last.rev, "ok", "none") :
          Call("getContacts", <<>>, "ok", "none", o)

addContactAnswered ==
    /\ Idle
    /\ Room(1)
    /\ \E contactData \in ContactDataRemote :
          \E o \in contactsAPI_addContact(Db, St, contactData, now, last.rev, "ok", "none") :
             Call("addContact", contactData, "ok", "none", o)

(***************************************************************************)
(* The calls of a client whose service is either up or unreachable, with   *)
(* every fault of the local store: entries with and without a timestamp    *)
(* of the caller, contacts whose names differ in case and in order.        *)
(***************************************************************************)
ScenariosUpDown(r) == IF LocalOnly(r) THEN {"none"} ELSE {"ok", "neterr"}

EntryDataStore ==
    {[entry_text |-> "Test", mood_rating |-> 4],
     [entry_text |-> "Hi", mood_rating |-> 5, timestamp |-> StartTime - (2 * HourMs)],
     [entry_text |-> "Hi", mood_rating |-> 5, timestamp |-> StartTime + HourMs]}
ContactDataStore ==
    {[contact_name |-> NameAnn, contact_email |-> EmailA],
     [contact_name |-> NameBob, contact_email |-> EmailAUpper]}

\* getUserId, called on its own.
getUserIdCall ==
    /\ Idle
    /\ \E sf \in StorageFaults :
          LET u == getUserId(St, sf)
          IN  Call("getUserId", <<>>, "none", sf,
                   [db |-> Db, st |-> u.st, outcome |-> "returned", via |-> "local",
                    status |-> 0, value |-> u.value])

getEntriesUpDown ==
    /\ Idle
    /\ \E sc \in ScenariosUpDown(last.rev), sf \in StorageFaults :
          \E o \in journalAPI_getEntries(Db, St, now, last.rev, sc, sf) :
             Call("getEntries", <<>>, sc, sf, o)

createEntryUpDown ==
    /\ Idle
    /\ Room(1)
    /\ \E entryData \in EntryDataStore, sc \in ScenariosUpDown(last.rev), sf \in StorageFaults :
          \E o \in journalAPI_createEntry(Db, St, entryData, now, last.rev, sc, sf) :
             Call("createEntry", entryData, sc, sf, o)

deleteEntryUpDown ==
    /\ Idle
    /\ \E entryId \in ClientEntryIds, sc \in ScenariosUpDown(last.rev), sf \in StorageFaults :
          \E o \in journalAPI_deleteEntry(Db, St, entryId, now, last.rev, sc, sf) :
             Call("deleteEntry", entryId, sc, sf, o)

getContactsUpDown ==
    /\ Idle
    /\ \E sc \in ScenariosUpDown(last.rev), sf \in StorageFaults :
          \E o \in contactsAPI_getContacts(Db, St, now, last.rev, sc, sf) :
             Call("getContacts", <<>>, sc, sf, o)

addContactUpDown ==
    /\ Idle
    /\ Room(1)
    /\ \E contactData \in ContactDataStore, sc \in ScenariosUpDown(last.rev),
          sf \in StorageFaults :
          \E o \in contactsAPI_addContact(Db, St, contactData, now, last.rev, sc, sf) :
             Call("addContact", contactData, sc, sf, o)

\* clearAllData
clearAllData ==
    /\ Idle
    /\ \E sf \in StorageFaults : SetSt(clearAllDataStore(St, sf))
    /\ UNCHANGED <<serverVars, now, callVars, last>>

\* HomeScreen.loadStats: initializeSampleData.
initializeSampleData ==
    /\ Idle
    /\ \E sf \in StorageFaults : SetSt(initializeSampleDataStore(St, now, sf))
    /\ UNCHANGED <<serverVars, now, callVars, last>>

\* The clock advances by a millisecond.
Tick ==
    /\ Idle
    /\ now < StartTime + MaxTicks
    /\ now' = now + 1
    /\ UNCHANGED <<serverVars, localVars, callVars, last>>

\* The caller takes the result of the operation: the next one can start.
Return ==
    /\ ~Idle
    /\ last' = [op |-> "idle", rev |-> last.rev]
    /\ UNCHANGED <<serverVars, localVars, now, callVars>>

(***************************************************************************)
(* One call of the data-access layer, step by step: the remote attempt of  *)
(* apiCall / callAPI as the sequence of awaits it is made of.  The steps   *)
(* of the network and of the service (a probe or the fetch settling, the   *)
(* body arriving) are the environment's: they may never happen.            *)
(***************************************************************************)
\* getComputerIP: the numbers of candidate addresses, commonEndings (method 1),
\* commonRanges and commonIPs (method 2).
CommonEndings == 7
CommonRanges == 4
CommonIPs == 6

\* What the callers of this part hand over: one input per operation.
StepOps == {"getEntries", "createEntry", "getContacts"}
StepArg(op) == IF op = "createEntry" THEN [entry_text |-> "Test", mood_rating |-> 4] ELSE <<>>

\* The operation starts: callAPI awaits initializeAPI first, which probes for the
\* address of the service while API_BASE_URL is null, with method 1 and 2 or, when the
\* network state cannot be used, with method 2 alone; apiCall arms the timer and
\* fetches at once.
StartCall ==
    /\ Idle
    /\ call.phase = "idle"
    /\ ~LocalOnly(last.rev)
    /\ \E op \in StepOps :
          /\ op = "createEntry" => Room(1)
          /\ IF last.rev = "callAPI" /\ API_BASE_URL = ""
             THEN \E n \in {CommonRanges * CommonIPs, CommonEndings + CommonRanges * CommonIPs} :
                     call' = [phase |-> "probing", op |-> op, left |-> n]
             ELSE call' = [phase |-> "fetching", op |-> op]
    /\ UNCHANGED <<serverVars, localVars, now, API_BASE_URL, processVars, last>>

\* testIPConnection: the fetch of /health of the candidate, which has no abort signal
\* (its 'timeout' option is not an option of fetch), resolves with response.ok.
ProbeFinds ==
    /\ call.phase = "probing"
    /\ API_BASE_URL' = "host"
    /\ call' = [phase |-> "fetching", op |-> call.op]
    /\ UNCHANGED <<serverVars, localVars, now, processVars, last>>

\* testIPConnection: the fetch rejects or resolves with a response that is not ok;
\* after the last candidate, getComputerIP falls back to 'localhost'.
ProbeFails ==
    /\ call.phase = "probing"
    /\ IF call.left > 1
       THEN /\ call' = [call EXCEPT !.left = @ - 1]
            /\ UNCHANGED API_BASE_URL
       ELSE /\ call' = [phase |-> "fetching", op |-> call.op]
            /\ API_BASE_URL' = "localhost"
    /\ UNCHANGED <<serverVars, localVars, now, processVars, last>>

\* await fetch(url, {signal}) resolves with the head of the response:
\* clearTimeout(timeoutId), then the body is awaited (response.json() / text()).
FetchAnswers ==
    /\ call.phase = "fetching"
    /\ call' = [phase |-> "reading", op |-> call.op]
    /\ UNCHANGED <<serverVars, localVars, now, API_BASE_URL, processVars, last>>

\* await fetch rejects: no connection.
FetchRejects ==
    /\ call.phase = "fetching"
    /\ call' = [phase |-> "fallback", op |-> call.op, sc |-> "neterr"]
    /\ UNCHANGED <<serverVars, localVars, now, API_BASE_URL, processVars, last>>

\* setTimeout(() => controller.abort(), 10000) fires while the fetch is pending: the
\* service may or may not have handled the request.
TimerFires ==
    /\ call.phase = "fetching"
    /\ \E sc \in {"timeout", "lost"} :
          call' = [phase |-> "fallback", op |-> call.op, sc |-> sc]
    /\ UNCHANGED <<serverVars, localVars, now, API_BASE_URL, processVars, last>>

\* The body arrives and is parsed: the operation ends with what the answer says.
BodyArrives ==
    /\ call.phase = "reading"
    /\ \E sc \in {"ok", "db_refused", "db_error"} :
          \E o \in OutcomesOf(call.op, Db, St, StepArg(call.op), now, last.rev, sc, "none") :
             Complete(call.op, StepArg(call.op), sc, "none", o)
    /\ call' = [phase |-> "idle"]
    /\ UNCHANGED <<API_BASE_URL, processVars>>

\* The body cannot be read or parsed.
BodyFails ==
    /\ call.phase = "reading"
    /\ call' = [phase |-> "fallback", op |-> call.op, sc |-> "badbody"]
    /\ UNCHANGED <<serverVars, localVars, now, API_BASE_URL, processVars, last>>

\* The catch block of the operation: the local store serves the call.
Fallback ==
    /\ call.phase = "fallback"
    /\ \E o \in OutcomesOf(call.op, Db, St, StepArg(call.op), now, last.rev, call.sc, "none") :
          Complete(call.op, StepArg(call.op), call.sc, "none", o)
    /\ call' = [phase |-> "idle"]
    /\ UNCHANGED <<API_BASE_URL, processVars>>

\* The client built from one of the revisions that go to the service.
InitBackendRevision ==
    /\ InitServer
    /\ InitClient
    /\ now = StartTime
    /\ last \in {[op |-> "idle", rev |-> rv] : rv \in {"apiCall", "callAPI"}}

(***************************************************************************)
(* Specifications.                                                         *)
(***************************************************************************)
\* The journal endpoints of the service.
NextJournal == PostJournalEntry \/ GetJournalUser \/ DeleteJournalEntry \/ InitializeDatabase \/ Tick \/ Return
SpecJournal == Init /\ [][NextJournal]_vars

\* The journal endpoints, POST with every mood of [-10, 20].
NextMood == PostJournalEntryAnyMood \/ DeleteJournalEntry \/ InitializeDatabase \/ Return
SpecMood == Init /\ [][NextMood]_vars

\* The contact endpoints of the service.
NextContacts == PostContactsAdd \/ GetContactsUser \/ InitializeDatabase \/ Tick \/ Return
SpecContacts == Init /\ [][NextContacts]_vars

\* One call at a time, step by step.  The timer, the local store and the caller
\* are the client's own and always get their turn; nothing is assumed of the network
\* and the service.
NextCall ==
    StartCall \/ ProbeFinds \/ ProbeFails \/ FetchAnswers \/ FetchRejects \/ TimerFires
    \/ BodyArrives \/ BodyFails \/ Fallback \/ Return
SpecCall ==
    /\ InitBackendRevision
    /\ [][NextCall]_vars
    /\ WF_vars(TimerFires)
    /\ WF_vars(Fallback)
    /\ WF_vars(Return)

\* The data-access layer over a service that answers every request.
NextRemote ==
    getEntriesAnswered \/ createEntryAnswered \/ deleteEntryAnswered
    \/ getContactsAnswered \/ addContactAnswered \/ Tick \/ Return
SpecRemote == InitBackendRevision /\ [][NextRemote]_vars

\* The data-access layer and the local store, the service up or unreachable.
NextStore ==
    getUserIdCall \/ getEntriesUpDown \/ createEntryUpDown \/ deleteEntryUpDown
    \/ getContactsUpDown \/ addContactUpDown \/ initializeSampleData \/ clearAllData
    \/ Tick \/ Return
SpecStore == InitAnyRevision /\ [][NextStore]_vars

\* The data-access layer over the service and the local store.
NextClient ==
    getEntries \/ createEntry \/ deleteEntry \/ getContactsCall \/ addContactCall
    \/ initializeSampleData \/ Tick \/ Return
SpecClient == InitAnyRevision /\ [][NextClient]_vars

(***************************************************************************)
(* Properties of the service.                                              *)
(***************************************************************************)
\* The row of contacts a request body collides with, if any: same user, and
\* the same email once case is ignored.
SamePair(c, body) ==
    /\ c.user_id = body.user_id
    /\ ToLowerCase(c.contact_email) = ToLowerCase(body.contact_email)

ContactsUnique ==
    /\ \A c \in contacts : c.contact_email = ToLowerCase(c.contact_email)
    /\ \A c1, c2 \in contacts :
          c1.user_id = c2.user_id /\ c1.contact_email = c2.contact_email => c1 = c2

\* A valid POST /contacts/add that reaches a working database.
ContactCreateStep ==
    /\ last'.op = "POST /contacts/add"
    /\ last.op = "idle"
    /\ last'.dbst = "up"
    /\ contactSchema(last'.req)

\* C4: the service holds at most one contact per (user_id, contact_email),
\* emails compared without regard to case: a first create of a pair stores the
\* email lower-cased, and a valid create of a pair that exists already, in any
\* casing of the email, is answered 409 and leaves the existing contact and
\* all the rows of the store as they were.
C4_OneContactPerPair ==
    /\ ContactsUnique
    /\ [][/\ ContactsUnique'
          /\ ContactCreateStep =>
                IF \E c \in contacts : SamePair(c, last'.req)
                THEN /\ last'.res.status = 409
                     /\ last'.res.message = MsgDuplicate
                     /\ contacts' = contacts
                     /\ journal_entries' = journal_entries
                ELSE /\ last'.res.status = 201
                     /\ \E c \in contacts' :
                           /\ c.id = last'.res.contact_id
                           /\ c.user_id = last'.req.user_id
                           /\ c.contact_name = last'.req.contact_name
                           /\ c.contact_email = ToLowerCase(last'.req.contact_email)
                           /\ contacts' = contacts \cup {c}
                           /\ c \notin contacts]_vars

\* A create of a seeded contact's email in upper case has been answered 409,
\* after a first create of the same user has been stored in lower case.
C4_Witness ==
    /\ last.op = "POST /contacts/add"
    /\ last.res.status = 409
    /\ last.req.contact_email = EmailAUpper
    /\ \E c \in contacts : c.user_id = last.req.user_id /\ c.contact_email = EmailA

\* The entries of the service that belong to user u.
EntriesOf(u) == {r \in journal_entries : r.user_id = u}

\* The entries a 200 answer of GET /journal/user/:id lists with id n.
Listed(n) == {i \in DOMAIN last.res.entries : last.res.entries[i].id = n}

GetJournalAnswered ==
    /\ last.op = "GET /journal/user/:id"
    /\ last.res.status = 200

\* C6: an entry POST /journal/entry has answered 201 for, with entry_id N,
\* stays retrievable until a DELETE of N succeeds: every GET
\* /journal/user/<user_id> answered in the meantime lists exactly one entry
\* with id N, whose entry_text and mood_rating are the ones that were sent.
C6_CreatedEntryStays ==
    GetJournalAnswered =>
        \A e \in issued :
            e.user_id = ParseInt(last.req) /\ e.id \notin deleted_ids =>
                /\ Cardinality(Listed(e.id)) = 1
                /\ \A i \in Listed(e.id) :
                      /\ last.res.entries[i].entry_text = e.entry_text
                      /\ last.res.entries[i].mood_rating = e.mood_rating

\* A GET lists an entry that was created before another entry was created and
\* deleted, and before the service restarted.
C6_Witness ==
    /\ GetJournalAnswered
    /\ deleted_ids # {}
    /\ \E e \in issued :
          /\ e.user_id = ParseInt(last.req)
          /\ e.id \notin deleted_ids
          /\ \E d \in deleted_ids : d > e.id
          /\ Listed(e.id) # {}

\* DELETE /journal/entry/:id reaches a working database.
DeleteStep ==
    /\ last'.op = "DELETE /journal/entry/:id"
    /\ last.op = "idle"
    /\ last'.dbst = "up"

\* C7: DELETE /journal/entry/N of an existing entry N is answered 200 and
\* removes that entry and nothing else; from then on N is never the id of an
\* entry again, whatever is created later, and a further DELETE of N is
\* answered 404 and changes nothing.
C7_DeleteIsFinal ==
    /\ deleted_ids \cap {r.id : r \in journal_entries} = {}
    /\ [][/\ (deleted_ids \cap {r.id : r \in journal_entries})' = {}
          /\ DeleteStep =>
                LET n == ParseInt(last'.req)
                    row == {r \in journal_entries : r.id = n}
                IN  /\ row # {} =>
                          /\ last'.res.status = 200
                          /\ journal_entries' = journal_entries \ row
                          /\ Cardinality(row) = 1
                          /\ contacts' = contacts
                    /\ n \in deleted_ids =>
                          /\ last'.res.status = 404
                          /\ last'.res.message = MsgEntryNotFound
                          /\ journal_entries' = journal_entries
                          /\ contacts' = contacts]_vars

\* A second DELETE of an id has been answered 404 after a later entry was
\* created.
C7_Witness ==
    /\ last.op = "DELETE /journal/entry/:id"
    /\ last.res.status = 404
    /\ ParseInt(last.req) \in deleted_ids
    /\ \E r \in journal_entries : r.id > ParseInt(last.req)
    /\ \E e \in issued : e.id > ParseInt(last.req)

\* C8: POST /journal/entry with an integer mood_rating of [-10, 20] outside
\* 1..5 is answered 400 before any storage statement runs (no row is added and
\* the id sequence does not advance), so every stored entry has a mood_rating
\* of 1..5.
C8_MoodRange ==
    /\ \A r \in journal_entries : r.mood_rating \in 1..5
    /\ [][/\ \A r \in journal_entries' : r.mood_rating \in 1..5
          /\ (/\ last'.op = "POST /journal/entry"
              /\ last.op = "idle"
              /\ last'.req.mood_rating \in AllMoods \ (1..5)) =>
                /\ last'.res.status = 400
                /\ last'.res.message = MsgValidation
                /\ journal_entries' = journal_entries
                /\ journal_seq' = journal_seq]_vars

\* A mood_rating of -10 has been answered 400 while the database was
\* unreachable.
C8_Witness ==
    /\ last.op = "POST /journal/entry"
    /\ last.req.mood_rating = 0 - 10
    /\ last.dbst = "ECONNREFUSED"
    /\ last.res.status = 400

\* C9: a 200 answer of GET /journal/user/U lists exactly the stored entries
\* whose user_id is U, each once and with its stored fields, by timestamp from
\* the latest to the earliest, whatever the order they were inserted in.
C9_ListOfUser ==
    GetJournalAnswered =>
        LET u == ParseInt(last.req)
            es == last.res.entries
        IN  /\ {Merge(es[i], [user_id |-> u]) : i \in DOMAIN es} = EntriesOf(u)
            /\ Len(es) = Cardinality(EntriesOf(u))
            /\ last.res.count = Len(es)
            /\ \A i, j \in DOMAIN es : i < j => es[i].timestamp >= es[j].timestamp

\* A list of three entries or more where an entry inserted later, with an
\* earlier timestamp, comes after one inserted before it, while the store
\* holds an entry of another user.
C9_Witness ==
    /\ GetJournalAnswered
    /\ Len(last.res.entries) >= 3
    /\ \E i, j \in DOMAIN last.res.entries :
          /\ i < j
          /\ last.res.entries[i].id < last.res.entries[j].id
          /\ last.res.entries[i].timestamp > last.res.entries[j].timestamp
    /\ \E r \in journal_entries : r.user_id # ParseInt(last.req)

(***************************************************************************)
(* Properties of the data-access layer.                                    *)
(***************************************************************************)
\* The remote attempt of the call recorded in l has failed: no connection, the
\* timer, an answer that did not arrive or could not be read, or an answer
\* that is not a success.
RemoteFailedIn(l) ==
    \/ l.sc \in {"neterr", "timeout", "lost", "badbody"}
    \/ ~Is2xx(l.status)

\* The step is a call of operation op in backend mode.
BackendCall(op) ==
    /\ last.op = "idle"
    /\ last'.op = op
    /\ ~LocalOnly(last'.rev)

\* C1: in backend mode, whenever the remote attempt of getEntries, getContacts
\* or createEntry fails for any reason, the call raises nothing to its caller
\* and returns the result of the local store: the local collection for the two
\* reads (empty when it cannot be read), and for createEntry a record with an
\* id and a timestamp made locally from the clock, which is at the head of
\* the local entries from then on unless the local write itself fails.
C1_FallbackOnFailure ==
    [][/\ (\/ BackendCall("getEntries") \/ BackendCall("getContacts")
           \/ BackendCall("createEntry")) /\ RemoteFailedIn(last') =>
             /\ last'.outcome = "returned"
             /\ last'.via = "local"
       /\ BackendCall("getEntries") /\ RemoteFailedIn(last') =>
             /\ last'.value = IF last'.sf = "read" THEN <<>> ELSE local_entries
             /\ local_entries' = local_entries
       /\ BackendCall("getContacts") /\ RemoteFailedIn(last') =>
             /\ last'.value = IF last'.sf = "read" THEN <<>> ELSE local_contacts
             /\ local_contacts' = local_contacts
       /\ BackendCall("createEntry") /\ RemoteFailedIn(last') =>
             /\ last'.value.id = NumToString(now)
             /\ last'.value.timestamp = now
             /\ last'.value.entry_text = last'.arg.entry_text
             /\ last'.value.mood_rating = last'.arg.mood_rating
             /\ last'.sf = "none" => local_entries' = <<last'.value>> \o local_entries
             /\ last'.sf = "write" => local_entries' = local_entries]_vars

\* createEntry has returned a locally made record, now in the local entries,
\* after the service answered 503.
C1_Witness ==
    /\ last.op = "createEntry"
    /\ last.rev = "apiCall"
    /\ last.sc = "db_refused"
    /\ last.status = 503
    /\ last.outcome = "returned"
    /\ last.via = "local"
    /\ local_entries # <<>>
    /\ Head(local_entries) = last.value

\* C2: when the service rejects an add-contact request as a duplicate (409,
\* 'Contact with this email already exists for this user'), addContact raises
\* to its caller and the local contacts collection stays as it was.
C2_DuplicateIsRaised ==
    [][BackendCall("addContact") /\ last'.sc = "ok" /\ last'.status = 409 =>
          /\ last'.outcome = "raised"
          /\ last'.via = "remote"
          /\ local_contacts' = local_contacts
          /\ local_entries' = local_entries]_vars

\* addContact has raised on a 409 of the service.
C2_Witness ==
    /\ last.op = "addContact"
    /\ last.sc = "ok"
    /\ last.status = 409
    /\ last.outcome = "raised"
    /\ last.arg.contact_email = SeedEmail1

\* C3: when the service rejects a create request as invalid (400), createEntry
\* or addContact reports the error to its caller, and no local fallback takes
\* place: the local collections stay as they were.
C3_ValidationIsReported ==
    [][(BackendCall("createEntry") \/ BackendCall("addContact"))
          /\ last'.sc = "ok" /\ last'.status = 400 =>
             /\ last'.outcome = "raised"
             /\ local_entries' = local_entries
             /\ local_contacts' = local_contacts]_vars

\* C5: the local contacts collection never holds two contacts with the same
\* (user_id, contact_email).
C5_LocalContactsUnique ==
    \A i, j \in DOMAIN local_contacts :
        /\ local_contacts[i].user_id = local_contacts[j].user_id
        /\ local_contacts[i].contact_email = local_contacts[j].contact_email
        => i = j

\* The entries the local delete reads under storage fault sf.
LocalRead(sf) == IF sf = "read" THEN <<>> ELSE local_entries

\* C10 as stated: for every entry id and every failure of the remote delete,
\* deleteEntry raises nothing and returns the success acknowledgement.
C10_DeleteNeverRaises ==
    last.op = "deleteEntry" /\ ~LocalOnly(last.rev) /\ RemoteFailedIn(last) =>
        /\ last.outcome = "returned"
        /\ last.value = TRUE

\* C10: for every entry id and every failure of the remote delete, deleteEntry
\* does not pass the remote error on but deletes from the local store: when
\* the local entries it reads hold an entry with that id, it returns the
\* success acknowledgement and the local entries lose exactly that entry
\* (unless the local write fails); when they hold none, it raises the local
\* store's not-found error and the local entries stay as they were.
C10_DeleteFallsBack ==
    [][BackendCall("deleteEntry") /\ RemoteFailedIn(last') =>
          /\ last'.via = "local"
          /\ IF \E i \in DOMAIN LocalRead(last'.sf) : LocalRead(last'.sf)[i].id = last'.arg
             THEN /\ last'.outcome = "returned"
                  /\ last'.value = TRUE
                  /\ last'.sf = "none" =>
                        local_entries' =
                            SelectSeq(local_entries, LAMBDA e : e.id # last'.arg)
                  /\ last'.sf = "write" => local_entries' = local_entries
             ELSE /\ last'.outcome = "raised"
                  /\ last'.value = "Entry with ID not found"
                  /\ local_entries' = local_entries]_vars

\* deleteEntry has raised the local not-found error for an id the local
\* entries do not hold, the service having answered 503, while the local
\* store holds other entries.
C10_Witness ==
    /\ last.op = "deleteEntry"
    /\ last.status = 503
    /\ last.via = "local"
    /\ last.outcome = "raised"
    /\ local_entries # <<>>

\* C11: when the remote delete is answered 404 (entry not found), deleteEntry
\* reports the not-found outcome to its caller and does not delete from the
\* local store: the local entries stay as they were.
C11_NotFoundIsReported ==
    [][BackendCall("deleteEntry") /\ last'.sc = "ok" /\ last'.status = 404 =>
          /\ last'.outcome = "raised"
          /\ local_entries' = local_entries]_vars

\* The remote service is unavailable to the call recorded in l.
RemoteUnavailable(l) == l.sc \in {"neterr", "timeout"} \/ l.status = 503

\* C12: with the remote service unavailable, every createEntry leaves the
\* record it returns, with its id and timestamp, in the local entries,
\* whatever the outcome of the local read and write steps, and a local entry
\* stays in the collection until a deleteEntry of its id.
C12_CreatedLocallyStays ==
    [][/\ BackendCall("createEntry") /\ RemoteUnavailable(last') =>
             /\ last'.outcome = "returned"
             /\ "id" \in DOMAIN last'.value /\ "timestamp" \in DOMAIN last'.value
             /\ last'.value \in Range(local_entries')
       /\ \A e \in Range(local_entries) :
             \/ e \in Range(local_entries')
             \/ last'.op = "deleteEntry" /\ last'.arg = e.id]_vars

\* C13: when the abort timer fires before the answer of the service has
\* arrived (the service reached or not), each of the five operations takes the
\* local-store fallback and ends exactly as it does when the connection fails:
\* same outcome, same value, same local store; the caller gets no error of the
\* remote attempt, the only error being the local delete's not-found.
C13_TimeoutIsAnyFailure ==
    [][\A op \in ClientOps :
          BackendCall(op) /\ last'.sc \in {"timeout", "lost"} =>
             /\ last'.via = "local"
             /\ last'.outcome = "raised" =>
                   op = "deleteEntry" /\ last'.value = "Entry with ID not found"
             /\ \E o \in OutcomesOf(op, Db, St, last'.arg, now, last'.rev, "neterr",
                                    last'.sf) :
                   /\ o.outcome = last'.outcome
                   /\ o.value = last'.value
                   /\ o.st = St']_vars

\* addContact has returned a local contact after the timer fired on a request
\* the service had handled and stored.
C13_Witness ==
    /\ last.op = "addContact"
    /\ last.sc = "lost"
    /\ last.status = 201
    /\ last.via = "local"
    /\ last.outcome = "returned"
    /\ last.value \in Range(local_contacts)

\* C14: every call of createEntry, getEntries and getContacts that has started
\* eventually ends, even when the service never answers: whichever step of
\* the remote attempt is pending, the abort timer ends it and the call goes
\* on with the local store.
C14_CallCompletes == (call.phase # "idle") ~> (call.phase = "idle")

\* A create of the data-access layer has been stored by the service.
RemoteCreateDone(op) ==
    /\ last.op = op
    /\ last.via = "remote"
    /\ last.outcome = "returned"

\* The lists a remote list of the user of the returned record can show now.
EntryLists == {res.entries : res \in GetJournalUserHandler(Db, NumToString(last.value.user_id), "up")}
ContactLists == {res.contacts : res \in GetContactsUserHandler(Db, NumToString(last.value.user_id), "up")}

\* The record createEntry returns is the entry a following remote list shows for
\* its id: server-assigned id and timestamp, text and mood as sent.
ReturnedEntryIsListed ==
    RemoteCreateDone("createEntry") =>
        \A es \in EntryLists :
            \E i \in DOMAIN es :
                es[i] = [id |-> last.value.id, entry_text |-> last.value.entry_text,
                         mood_rating |-> last.value.mood_rating,
                         timestamp |-> last.value.timestamp]

\* C15 as stated: when the remote create succeeds, the record createEntry
\* (resp. addContact) returns has the server-assigned id and timestamp (resp.
\* created_at) and equals what a following remote list shows for that id.
C15_ReturnedEqualsListed ==
    /\ ReturnedEntryIsListed
    /\ RemoteCreateDone("addContact") =>
          \A cs \in ContactLists :
              \E i \in DOMAIN cs :
                  cs[i] = [id |-> last.value.id, contact_name |-> last.value.contact_name,
                           contact_email |-> last.value.contact_email,
                           created_at |-> last.value.created_at]

\* C15: when the remote create succeeds, the record createEntry (resp.
\* addContact) returns has the id and the timestamp (resp. created_at) of the
\* stored row, and its other fields are the caller's: a following remote list
\* shows for that id the same record, except that the listed contact_email is
\* the returned one in lower case.
C15_ReturnedMatchesListed ==
    /\ ReturnedEntryIsListed
    /\ RemoteCreateDone("addContact") =>
          /\ last.value.contact_email = last.arg.contact_email
          /\ \A cs \in ContactLists :
                \E i \in DOMAIN cs :
                    cs[i] = [id |-> last.value.id, contact_name |-> last.value.contact_name,
                             contact_email |-> ToLowerCase(last.value.contact_email),
                             created_at |-> last.value.created_at]

\* addContact has returned a stored contact whose e-mail address was given in
\* upper case, after a createEntry with a timestamp of the caller was stored.
C15_Witness ==
    /\ RemoteCreateDone("addContact")
    /\ last.value.contact_email = EmailAUpper
    /\ \E r \in contacts : r.id = last.value.id /\ r.contact_email = EmailA
    /\ \E r \in journal_entries : r.entry_text = "Hi"

\* The step is a create of the data-access layer, in any mode.
CreateStep ==
    /\ last.op = "idle"
    /\ last'.op \in {"createEntry", "addContact"}

\* C16: getUserId returns the same value, '1', on every call of an
\* installation; a call with a working store leaves it persisted; once
\* persisted, the user id is never changed or removed by any operation
\* (createEntry, deleteEntry, addContact, initializeSampleData, clearAllData
\* included); and every create, remote or local, carries this user_id: the
\* record returned, the local record and the row the service stores.
C16_StableUserId ==
    [][/\ local_user_id # <<>> => local_user_id' = local_user_id
       /\ local_user_id' \in {<<>>, <<49>>}
       /\ last.op = "idle" /\ last'.op = "getUserId" =>
             /\ last'.value = <<49>>
             /\ last'.sf = "none" => local_user_id' = <<49>>
       /\ CreateStep /\ last'.outcome = "returned" =>
             /\ last'.value.user_id = 1
             /\ \A r \in (journal_entries' \ journal_entries) \cup (contacts' \ contacts) :
                   r.user_id = 1
             /\ \A i \in DOMAIN local_entries' : local_entries'[i].user_id = 1
             /\ \A i \in DOMAIN local_contacts' : local_contacts'[i].user_id = 1]_vars

\* getUserId has returned '1' from the persisted key, after a remote create
\* and a tick of the clock, the local collections being empty.
C16_Witness ==
    /\ last.op = "getUserId"
    /\ last.value = <<49>>
    /\ local_user_id = <<49>>
    /\ local_entries = <<>>
    /\ local_contacts = <<>>
    /\ now > StartTime
    /\ journal_seq > FirstStart.jseq

\* ---------------------------------------------------------------------------
\* Failure of the storage round trip (handleError).

\* The routes of the journal and contact endpoints.
ServiceRoutes ==
    {"POST /journal/entry", "GET /journal/user/:id", "DELETE /journal/entry/:id",
     "POST /contacts/add", "GET /contacts/user/:id"}

\* C17: a request whose storage round trip fails because the storage backend
\* is unreachable (the connection is refused or times out) is answered with
\* status 503, never with 400, 404, 409 or 500.  The round trip is made by the
\* requests that pass validation, which are those not answered with 400.
C17_UnreachableIs503 ==
    (/\ last.op \in ServiceRoutes
     /\ last.dbst # "up"
     /\ last.res.status # 400) => last.res.status = 503

\* ---------------------------------------------------------------------------
\* Order of the lists of the local store.

\* C18: getEntries served from the local store returns the entries ordered by
\* timestamp descending, after any sequence of createEntry calls (with or
\* without a timestamp of the caller), deleteEntry calls and
\* initializeSampleData.
C18_LocalListIsDescending ==
    last.op = "getEntries" /\ last.via = "local" =>
        \A i, j \in DOMAIN last.value :
            i < j => last.value[i].timestamp >= last.value[j].timestamp

\* s is in ascending order of contact_name: by the comparison of the remote
\* store for a list of the service, by localeCompare for a list of the local
\* store.
AscendingByName(s, via) ==
    \A i, j \in DOMAIN s :
        i < j => IF via = "local"
                 THEN ~LocaleLess(s[j].contact_name, s[i].contact_name)
                 ELSE ~SeqLess(s[j].contact_name, s[i].contact_name)

\* C19: getContacts returns the contacts in ascending order of contact_name on
\* both paths and in every reachable state, the state right after
\* initializeSampleData and before any addContact included.
C19_ContactsAscending ==
    last.op = "getContacts" /\ last.outcome = "returned" =>
        AscendingByName(last.value, last.via)

\* ---------------------------------------------------------------------------
\* Ids of the local store.

\* No two records of the sequence s share an id.
UniqueIds(s) == \A i, j \in DOMAIN s : s[i].id = s[j].id => i = j

\* C20: after any sequence of creates, deletes and initializeSampleData, no
\* two entries of the local entries share an id and no two contacts of the
\* local contacts share an id, also when two creates happen within the same
\* millisecond of the clock.
C20_LocalIdsUnique == UniqueIds(local_entries) /\ UniqueIds(local_contacts)

(***************************************************************************)
(* initializeDatabase of backend/server.js, with the failures of its       *)
(* queries.  fault is the query that rejects during the run: "none",       *)
(* "tables" (a CREATE TABLE or a SELECT COUNT), "journal" (the INSERT of   *)
(* the sample entries) or "contacts" (the INSERT of the sample contacts).  *)
(* A rejection ends the run in the catch block; no transaction is open, so *)
(* what was inserted before stays.                                         *)
(***************************************************************************)
InitFaults == {"none", "tables", "journal", "contacts"}

\* The two INSERT statements of the sample rows.
InsertSampleEntries(db, t) ==
    [db EXCEPT
       !.jseq = @ + 2,
       !.je = @ \cup {[id |-> db.jseq + 1, user_id |-> 1, entry_text |-> SeedText1,
                       mood_rating |-> 5, timestamp |-> t - HourMs],
                      [id |-> db.jseq + 2, user_id |-> 1, entry_text |-> SeedText2,
                       mood_rating |-> 4, timestamp |-> t - (HourMs \div 2)]}]

InsertSampleContacts(db, t) ==
    [db EXCEPT
       !.cseq = @ + 2,
       !.ct = @ \cup {[id |-> db.cseq + 1, user_id |-> 1, contact_name |-> SeedName1,
                       contact_email |-> SeedEmail1, created_at |-> t],
                      [id |-> db.cseq + 2, user_id |-> 1, contact_name |-> SeedName2,
                       contact_email |-> SeedEmail2, created_at |-> t]}]

\* Variant: the sample rows are inserted without the check of the counts.
initializeDatabase_NoCount(db, t, fault) ==
    IF fault = "tables" THEN [db |-> db, ok |-> FALSE]
    ELSE IF fault = "journal" THEN [db |-> db, ok |-> FALSE]
    ELSE LET j == InsertSampleEntries(db, t)
         IN  IF fault = "contacts" THEN [db |-> j, ok |-> FALSE]
             ELSE [db |-> InsertSampleContacts(j, t), ok |-> TRUE]

\* initializeDatabase: the database after the run and the value returned.
initializeDatabase(db, t, fault) ==
    IF fault = "tables" THEN [db |-> db, ok |-> FALSE]
    ELSE LET journalCount == Cardinality(db.je)
             contactsCount == Cardinality(db.ct)
         IN  IF journalCount = 0 /\ fault = "journal" THEN [db |-> db, ok |-> FALSE]
             ELSE LET j == IF journalCount = 0 THEN InsertSampleEntries(db, t) ELSE db
                  IN  IF contactsCount = 0 /\ fault = "contacts" THEN [db |-> j, ok |-> FALSE]
                      ELSE [db |-> IF contactsCount = 0 THEN InsertSampleContacts(j, t) ELSE j,
                            ok |-> TRUE]

\* The ids the sequences may reach in the runs of initializeDatabase.
MaxSeq == FirstStart.jseq + MaxCreates

\* The service starts: initializeDatabase runs, any of its queries failing.
InitializeDatabaseRun ==
    /\ Idle
    /\ \E fault \in InitFaults :
          LET r == initializeDatabase(Db, now, fault)
          IN  /\ r.db.jseq <= MaxSeq /\ r.db.cseq <= MaxSeq
              /\ SetDb(r.db)
              /\ last' = [op |-> "initializeDatabase", fault |-> fault, ok |-> r.ok,
                          before |-> Db, rev |-> last.rev]
    /\ UNCHANGED <<local_entries, local_contacts, local_user_id, now, issued, deleted_ids,
                   callVars>>

\* The service before its first start: the tables are empty.
InitBeforeFirstStart ==
    /\ journal_entries = EmptyDb.je
    /\ journal_seq = EmptyDb.jseq
    /\ contacts = EmptyDb.ct
    /\ contacts_seq = EmptyDb.cseq
    /\ issued = {}
    /\ deleted_ids = {}
    /\ server = ServerUp
    /\ pool_out = 0
    /\ InitClient
    /\ now = StartTime
    /\ last = [op |-> "idle", rev |-> "apiCall"]

\* A user's entry and a user's contact are created between the starts.
PostJournalEntryOfUser ==
    /\ Idle
    /\ journal_seq < MaxSeq
    /\ \E dbst \in DbStates :
          LET body == [user_id |-> 1, entry_text |-> "Test", mood_rating |-> 4]
          IN  Request("POST /journal/entry", body,
                      PostJournalEntryHandler(Db, body, dbst, now), dbst)

PostContactsAddOfUser ==
    /\ Idle
    /\ contacts_seq < MaxSeq
    /\ \E dbst \in DbStates :
          LET body == [user_id |-> 1, contact_name |-> NameAnn, contact_email |-> EmailA]
          IN  Request("POST /contacts/add", body,
                      PostContactsAddHandler(Db, body, dbst, now), dbst)

\* Starts of the service between requests that create and delete rows.
NextSeed ==
    InitializeDatabaseRun \/ PostJournalEntryOfUser \/ DeleteJournalEntry
    \/ PostContactsAddOfUser \/ Tick \/ Return
SpecSeed == InitBeforeFirstStart /\ [][NextSeed]_vars

\* C21: the seeding of initializeDatabase is idempotent.  Whatever query
\* fails, a run adds no row to a table that is not empty and takes no id of
\* its sequence; a run without failure fills each empty table with its two
\* sample rows; and a run that follows a run without failure leaves the
\* store as that run left it.
C21_SeedingIsIdempotent ==
    \A fault \in InitFaults :
        LET r == initializeDatabase(Db, now, fault).db
            once == initializeDatabase(Db, now, "none").db
        IN  /\ Db.je # {} => r.je = Db.je /\ r.jseq = Db.jseq
            /\ Db.ct # {} => r.ct = Db.ct /\ r.cseq = Db.cseq
            /\ Db.je \subseteq r.je /\ Db.ct \subseteq r.ct
            /\ Db.je = {} => Cardinality(once.je) = 2
            /\ Db.ct = {} => Cardinality(once.ct) = 2
            /\ initializeDatabase(once, now, fault).db = once

\* A run without failure has left a store that holds rows of a user: the
\* journal table, emptied by deletes, took the sample rows again under new
\* ids, and the contacts table with a user's contact took none.
C21_Witness ==
    /\ last.op = "initializeDatabase" /\ last.ok
    /\ last.before.je = {} /\ last.before.jseq > 0
    /\ \E c \in last.before.ct : c.contact_name = NameAnn
    /\ Cardinality(journal_entries) = 2
    /\ contacts = last.before.ct

(***************************************************************************)
(* Properties of the calls under lost answers and overlapping operations.  *)
(***************************************************************************)
\* C22: one createEntry call puts the new entry into exactly one store.  When
\* it returns the record of the service the local entries are unchanged; when
\* it falls back to the local store the journal table has no row of this
\* call, also when the service has committed the insert and the answer is
\* lost or arrives after the abort.
C22_OneStorePerCreate ==
    [][last.op = "idle" /\ last'.op = "createEntry" =>
          /\ last'.via = "remote" => local_entries' = local_entries
          /\ last'.via = "local" => journal_entries' = journal_entries]_vars

(***************************************************************************)
(* utils/storage.js, operation by operation and await by await: the        *)
(* operations on the local entries that two callers have in progress at a  *)
(* time.  A task is at "read" while its getItem is pending, at "write"     *)
(* while its setItem is pending; what runs between two awaits is one step. *)
(***************************************************************************)
TaskIds == {1, 2}

\* The operations started and their arguments.
TaskInputs ==
    {[op |-> "addJournalEntry", arg |-> [user_id |-> 1, entry_text |-> x[1], mood_rating |-> x[2]]]
        : x \in {<<"Test", 4>>, <<"Hi", 5>>}}
    \cup {[op |-> "deleteJournalEntry", arg |-> id] : id \in SampleIds}
    \cup {[op |-> "initializeSampleData", arg |-> <<>>]}

\* No task is between its start and its end.
Quiet == \A i \in TaskIds : tasks[i].pc \in {"idle", "done"}

\* An operation is called: it runs up to its first await, the getItem of the entries.
TaskStarts ==
    /\ Idle
    /\ \E i \in TaskIds, in \in TaskInputs :
          /\ tasks[i].pc = "idle"
          /\ in.op = "addJournalEntry" => Room(1)
          /\ tasks' = [tasks EXCEPT ![i] = [pc |-> "read", op |-> in.op, arg |-> in.arg]]
    /\ UNCHANGED <<serverVars, localVars, now, call, API_BASE_URL, screen_entries,
                   startVars, mode_asked, last>>

\* getJournalEntries resolves: the operation runs on with what it has read, up to
\* its next await.
TaskReads ==
    /\ \E i \in TaskIds :
          /\ tasks[i].pc = "read"
          /\ LET t == tasks[i]
                 entries == local_entries
                 newEntry == Merge(Merge([id |-> NumToString(now)], t.arg), [timestamp |-> now])
                 updatedEntries == SelectSeq(entries, LAMBDA entry : entry.id # t.arg)
             IN  tasks' = [tasks EXCEPT ![i] =
                    CASE t.op = "addJournalEntry" ->
                            [pc |-> "write", op |-> t.op, arg |-> t.arg,
                             entries |-> <<newEntry>> \o entries, value |-> newEntry]
                      [] t.op = "deleteJournalEntry" ->
                            IF Len(updatedEntries) = Len(entries)
                            THEN [pc |-> "done", op |-> t.op, arg |-> t.arg,
                                  outcome |-> "raised", value |-> "Entry with ID not found"]
                            ELSE [pc |-> "write", op |-> t.op, arg |-> t.arg,
                                  entries |-> updatedEntries, value |-> TRUE]
                      [] OTHER ->
                            [pc |-> "read2", op |-> t.op, arg |-> t.arg, empty |-> Len(entries) = 0]]
    /\ UNCHANGED <<serverVars, localVars, now, call, API_BASE_URL, screen_entries,
                   startVars, mode_asked, last>>

\* initializeSampleData: getContacts resolves; the sample entries are saved when the
\* entries read were empty, else the sample contacts when the contacts are.
TaskReadsContacts ==
    /\ \E i \in TaskIds :
          /\ tasks[i].pc = "read2"
          /\ LET t == tasks[i]
                 noContacts == Len(local_contacts) = 0
             IN  tasks' = [tasks EXCEPT ![i] =
                    IF t.empty
                    THEN [pc |-> "write", op |-> t.op, arg |-> t.arg,
                          entries |-> sampleEntries(now), value |-> TRUE, noContacts |-> noContacts]
                    ELSE IF noContacts
                    THEN [pc |-> "write2", op |-> t.op, arg |-> t.arg, cs |-> sampleContacts(now)]
                    ELSE [pc |-> "done", op |-> t.op, arg |-> t.arg,
                          outcome |-> "returned", value |-> TRUE]]
    /\ UNCHANGED <<serverVars, localVars, now, call, API_BASE_URL, screen_entries,
                   startVars, mode_asked, last>>

\* saveJournalEntries resolves: the list the operation built replaces the stored one.
TaskWrites ==
    /\ \E i \in TaskIds :
          /\ tasks[i].pc = "write"
          /\ LET t == tasks[i]
             IN  /\ local_entries' = t.entries
                 /\ tasks' = [tasks EXCEPT ![i] =
                       IF t.op = "initializeSampleData" /\ t.noContacts
                       THEN [pc |-> "write2", op |-> t.op, arg |-> t.arg, cs |-> sampleContacts(now)]
                       ELSE [pc |-> "done", op |-> t.op, arg |-> t.arg,
                             outcome |-> "returned", value |-> t.value]]
    /\ UNCHANGED <<serverVars, local_contacts, local_user_id, now, call, API_BASE_URL, screen_entries,
                   startVars, mode_asked, last>>

\* initializeSampleData: saveContacts resolves.
TaskWritesContacts ==
    /\ \E i \in TaskIds :
          /\ tasks[i].pc = "write2"
          /\ local_contacts' = tasks[i].cs
          /\ tasks' = [tasks EXCEPT ![i] = [pc |-> "done", op |-> tasks[i].op, arg |-> tasks[i].arg,
                                            outcome |-> "returned", value |-> TRUE]]
    /\ UNCHANGED <<serverVars, local_entries, local_user_id, now, call, API_BASE_URL, screen_entries,
                   startVars, mode_asked, last>>

\* The callers take the results of the operations that have ended.
TasksReturn ==
    /\ Quiet
    /\ \E i \in TaskIds : tasks[i].pc = "done"
    /\ tasks' = [i \in TaskIds |-> [pc |-> "idle"]]
    /\ UNCHANGED <<serverVars, localVars, now, call, API_BASE_URL, screen_entries,
                   startVars, mode_asked, last>>

\* Operations on the local store that overlap at their awaits.
NextOverlap ==
    TaskStarts \/ TaskReads \/ TaskReadsContacts \/ TaskWrites \/ TaskWritesContacts
    \/ TasksReturn \/ Tick
SpecOverlap == Init /\ [][NextOverlap]_vars

\* C23: no update of the local entries is lost under overlapping operations.
\* When the operations in progress have all ended, the entry every
\* addJournalEntry returned is in the collection, unless a deleteJournalEntry
\* that ended with it removed its id, and the id every deleteJournalEntry
\* removed is not.
C23_NoLostUpdate ==
    Quiet =>
        \A i \in TaskIds :
            tasks[i].pc = "done" /\ tasks[i].outcome = "returned" =>
               /\ tasks[i].op = "addJournalEntry" =>
                     \/ \E k \in DOMAIN local_entries : local_entries[k] = tasks[i].value
                     \/ \E j \in TaskIds : /\ tasks[j].pc = "done"
                                           /\ tasks[j].op = "deleteJournalEntry"
                                           /\ tasks[j].arg = tasks[i].value.id
               /\ tasks[i].op = "deleteJournalEntry" =>
                     \A k \in DOMAIN local_entries : local_entries[k].id # tasks[i].arg

(***************************************************************************)
(* The journal screen: loadEntries keeps the list getJournalEntriesAPI     *)
(* returned, and an entry of that list is what the user deletes.           *)
(***************************************************************************)
\* `${entryId}` of the URL and String(entryId): the id as text.  The ids of the
\* service are numbers, those of the local store are texts.
IdText(id, via) == IF via = "remote" THEN NumToString(id) ELSE id

\* loadEntries: setEntries(await getJournalEntriesAPI()).
loadEntries ==
    /\ Idle
    /\ \E sc \in ScenariosUpDown(last.rev) :
          \E o \in journalAPI_getEntries(Db, St, now, last.rev, sc, "none") :
             /\ Complete("getEntries", <<>>, sc, "none", o)
             /\ screen_entries' = [via |-> o.via,
                                   ids |-> {IdText(o.value[k].id, o.via) : k \in DOMAIN o.value}]
    /\ UNCHANGED <<call, API_BASE_URL, tasks, startVars, mode_asked>>

\* The user deletes an entry of the list shown: deleteJournalEntryAPI(entry.id).
deleteShown ==
    /\ Idle
    /\ \E entryId \in screen_entries.ids, sc \in ScenariosUpDown(last.rev) :
          \E o \in journalAPI_deleteEntry(Db, St, entryId, now, last.rev, sc, "none") :
             Call("deleteEntry", entryId, sc, "none", o)

\* The user saves an entry: createJournalEntryAPI({entry_text, mood_rating}).
saveEntry ==
    /\ Idle
    /\ Room(1)
    /\ \E sc \in ScenariosUpDown(last.rev) :
          LET entryData == [entry_text |-> "Test", mood_rating |-> 4]
          IN  \E o \in journalAPI_createEntry(Db, St, entryData, now, last.rev, sc, "none") :
                 Call("createEntry", entryData, sc, "none", o)

\* The screens over the data-access layer, the service up or unreachable.
NextScreen ==
    loadEntries \/ deleteShown \/ saveEntry \/ initializeSampleData \/ Return
SpecScreen == InitAnyRevision /\ [][NextScreen]_vars

\* C24: deleteEntry(id) deletes only the record the caller saw.  A
\* deleteEntry with an id of a list that fell back to the local store, a
\* sample id or a timestamp-derived id, never deletes a row of the remote
\* store, also when the service is reachable again at the time of the delete.
C24_LocalIdDeletesNoRemoteRow ==
    [][(/\ last.op = "idle" /\ last'.op = "deleteEntry"
        /\ screen_entries.via = "local")
          => journal_entries' = journal_entries]_vars

(***************************************************************************)
(* Frame of the additions to the local store.                              *)
(***************************************************************************)
\* C25: addJournalEntry and addContact of the local store keep every record
\* stored before: after the call the persisted collection is the previous
\* collection plus the new record, for every outcome of the read of the
\* collection, a read that fails and is answered with an empty list included.
\* (The write is taken to succeed.)
C25_AddKeepsStored ==
    [][(/\ last.op = "idle"
        /\ last'.op \in {"createEntry", "addContact"}
        /\ last'.via = "local" /\ last'.outcome = "returned"
        /\ last'.sf # "write")
          => /\ last'.op = "createEntry" =>
                   /\ Range(local_entries) \subseteq Range(local_entries')
                   /\ Len(local_entries') = Len(local_entries) + 1
                   /\ last'.value \in Range(local_entries')
                   /\ local_contacts' = local_contacts
             /\ last'.op = "addContact" =>
                   /\ Range(local_contacts) \subseteq Range(local_contacts')
                   /\ Len(local_contacts') = Len(local_contacts) + 1
                   /\ last'.value \in Range(local_contacts')
                   /\ local_entries' = local_entries]_vars

(***************************************************************************)
(* backend/server.js: startServer, testConnection and GET /health, await   *)
(* by await.  server.pc is the await the start of the service is at:       *)
(* "off" (not started), "connect" (pool.connect of an attempt), "query"    *)
(* (client.query of an attempt), "wait" (the retry delay), "init"          *)
(* (initializeDatabase), "listen" (about to call app.listen), "up".        *)
(***************************************************************************)
\* testConnection(maxRetries = 10, ...), and testConnection(retries = 5) of the
\* earlier revision.
maxRetries == 10
retries == 5
\* max: 20 of the pool configuration.
PoolMax == 20

ServerOff(n) ==
    [pc |-> "off", attempt |-> 0, failed |-> 0, waits |-> 0, limit |-> n,
     connected |-> "pending", initialized |-> "none", listening |-> FALSE]

\* The service before startServer, its tables empty.
InitServerOff ==
    /\ journal_entries = EmptyDb.je
    /\ journal_seq = EmptyDb.jseq
    /\ contacts = EmptyDb.ct
    /\ contacts_seq = EmptyDb.cseq
    /\ issued = {}
    /\ deleted_ids = {}
    /\ server \in {ServerOff(n) : n \in {maxRetries, retries}}
    /\ pool_out = 0
    /\ InitClient
    /\ now = StartTime
    /\ last = [op |-> "idle", rev |-> "apiCall"]

\* What the start leaves alone.
StartFrame == UNCHANGED <<serverVars, localVars, now, call, API_BASE_URL, tasks,
                          screen_entries, mode_asked, last>>

\* startServer is called: testConnection begins its first attempt.
StartServer ==
    /\ server.pc = "off"
    /\ server' = IF server.limit >= 1
                 THEN [server EXCEPT !.pc = "connect", !.attempt = 1]
                 ELSE [server EXCEPT !.pc = "listen", !.connected = "false"]
    /\ UNCHANGED pool_out
    /\ StartFrame

\* Variant: the retry delay follows the last attempt as well.
AttemptFailed_DelayAfterLast(sv) ==
    IF sv.attempt <= sv.limit
    THEN [sv EXCEPT !.pc = "wait", !.failed = @ + 1]
    ELSE [sv EXCEPT !.pc = "listen", !.failed = @ + 1, !.connected = "false"]

\* The catch block of an attempt: the retry delay when attempts are left, else
\* testConnection returns false.
AttemptFailed(sv) ==
    IF sv.attempt < sv.limit
    THEN [sv EXCEPT !.pc = "wait", !.failed = @ + 1]
    ELSE [sv EXCEPT !.pc = "listen", !.failed = @ + 1, !.connected = "false"]

\* pool.connect() resolves with a client.
Connects ==
    /\ server.pc = "connect"
    /\ pool_out < PoolMax
    /\ server' = [server EXCEPT !.pc = "query"]
    /\ pool_out' = pool_out + 1
    /\ StartFrame

\* pool.connect() rejects.
ConnectFails ==
    /\ server.pc = "connect"
    /\ server' = AttemptFailed(server)
    /\ UNCHANGED pool_out
    /\ StartFrame

\* client.query resolves: client.release(), return true.
QuerySucceeds ==
    /\ server.pc = "query"
    /\ server' = [server EXCEPT !.pc = "init", !.connected = "true"]
    /\ pool_out' = pool_out - 1
    /\ StartFrame

\* client.query rejects: the catch block runs, which does not release the client.
QueryFails ==
    /\ server.pc = "query"
    /\ server' = AttemptFailed(server)
    /\ UNCHANGED pool_out
    /\ StartFrame

\* The retry delay has passed: the next attempt.
RetryDelayEnds ==
    /\ server.pc = "wait"
    /\ server' = [server EXCEPT !.pc = "connect", !.attempt = @ + 1, !.waits = @ + 1]
    /\ UNCHANGED pool_out
    /\ StartFrame

\* Variant: initializeDatabase runs whatever testConnection has returned.
InitializesAtStart_Always ==
    /\ server.pc \in {"init", "listen"} /\ server.initialized = "none"
    /\ \E fault \in InitFaults :
          LET r == initializeDatabase(Db, now, fault)
          IN  /\ SetDb(r.db)
              /\ server' = [server EXCEPT !.pc = "listen",
                                          !.initialized = IF r.ok THEN "true" ELSE "false"]
    /\ UNCHANGED <<issued, deleted_ids, pool_out, localVars, now, call, API_BASE_URL, tasks,
                   screen_entries, mode_asked, last>>

\* if (dbConnected) { const dbInitialized = await initializeDatabase(); ... }
InitializesAtStart ==
    /\ server.pc = "init"
    /\ \E fault \in InitFaults :
          LET r == initializeDatabase(Db, now, fault)
          IN  /\ SetDb(r.db)
              /\ server' = [server EXCEPT !.pc = "listen",
                                          !.initialized = IF r.ok THEN "true" ELSE "false"]
    /\ UNCHANGED <<issued, deleted_ids, pool_out, localVars, now, call, API_BASE_URL, tasks,
                   screen_entries, mode_asked, last>>

\* app.listen(port, ...)
Listens ==
    /\ server.pc = "listen"
    /\ server' = [server EXCEPT !.pc = "up", !.listening = TRUE]
    /\ UNCHANGED pool_out
    /\ StartFrame

\* GET /health, from the request to the response: "ok" (200), "connect" (pool.connect
\* rejects, 503) or "query" (client.query rejects, 503, the client not released).
\* With every client of the pool checked out, pool.connect can only reject.
GetHealth ==
    /\ Idle
    /\ server.listening
    /\ \E outcome \in {"ok", "connect", "query"} :
          /\ pool_out = PoolMax => outcome = "connect"
          /\ pool_out' = IF outcome = "query" THEN pool_out + 1 ELSE pool_out
          /\ last' = [op |-> "GET /health", outcome |-> outcome,
                      res |-> [status |-> IF outcome = "ok" THEN 200 ELSE 503,
                               success |-> outcome = "ok"],
                      rev |-> last.rev]
    /\ UNCHANGED <<serverVars, localVars, now, call, API_BASE_URL, tasks, screen_entries,
                   server, mode_asked>>

\* The service from its start on, with health checks once it listens.
NextServer ==
    StartServer \/ Connects \/ ConnectFails \/ QuerySucceeds \/ QueryFails
    \/ RetryDelayEnds \/ InitializesAtStart \/ Listens \/ GetHealth \/ Return
\* Every await of the start settles: pool.connect within connectionTimeoutMillis,
\* the queries with an answer or with the error of their connection, the retry
\* delay with its timer.
SpecServer ==
    /\ InitServerOff
    /\ [][NextServer]_vars
    /\ WF_vars(StartServer)
    /\ WF_vars(Connects \/ ConnectFails)
    /\ WF_vars(QuerySucceeds \/ QueryFails)
    /\ WF_vars(RetryDelayEnds)
    /\ WF_vars(InitializesAtStart)
    /\ WF_vars(Listens)

\* No attempt of testConnection and no request is in progress.
ServerAtRest == server.pc \in {"off", "wait", "init", "listen", "up"} /\ Idle

\* C26: every client checked out of the pool by GET /health or by
\* testConnection is released before the handler or the attempt finishes, on
\* every path, a failing query after a successful connect included: no client
\* is checked out while no request or attempt is in progress, and health
\* checks never exhaust the pool of 20.
C26_ClientsAreReleased ==
    /\ ServerAtRest => pool_out = 0
    /\ pool_out < PoolMax

\* The start has reached app.listen with testConnection having returned c and
\* initializeDatabase i ("none" when it has not run).
StartCase(c, i) ==
    server.pc = "listen" /\ server.connected = c /\ server.initialized = i

\* C27: in startServer the service starts listening only after
\* testConnection has finished; initializeDatabase runs only after a
\* successful connection attempt and never after a failed testConnection,
\* which leaves the tables as they were; and the service starts listening in
\* all three cases: connected and initialised, connected with a failed
\* initialisation, and not connected.
C27_StartOrder ==
    /\ [](/\ server.listening => server.connected # "pending"
          /\ server.initialized # "none" => server.connected = "true"
          /\ server.connected = "false" => Db = EmptyDb
          /\ server.listening /\ server.connected = "true" => server.initialized # "none")
    /\ [][server'.initialized # server.initialized \/ Db' # Db
             => server.pc = "init" /\ server.connected = "true"]_vars
    /\ (StartCase("true", "true") ~> server.listening)
    /\ (StartCase("true", "false") ~> server.listening)
    /\ (StartCase("false", "none") ~> server.listening)
    /\ (server.pc # "off" ~> server.listening)

\* The service listens after a successful connection attempt and an
\* initialisation that failed at the INSERT of the sample contacts.
C27_Witness ==
    /\ server.listening
    /\ server.connected = "true" /\ server.initialized = "false"
    /\ journal_entries # {} /\ contacts = {}

setBackendMode ==
    /\ Idle
    /\ last.rev \in {"apiCall", "fetch"}
    /\ \E useBackend \in BOOLEAN :
          /\ mode_asked' = IF useBackend THEN "true" ELSE "false"
          /\ last' = [op |-> "setBackendMode", arg |-> useBackend, outcome |-> "raised",
                      value |-> "TypeError: Assignment to constant variable.",
                      rev |-> last.rev]
    /\ UNCHANGED <<serverVars, localVars, now, call, API_BASE_URL, tasks, screen_entries,
                   startVars>>

\* The data-access layer with calls of the mode switch.
NextMode ==
    setBackendMode \/ getEntriesUpDown \/ createEntryUpDown \/ deleteEntryUpDown
    \/ getContactsUpDown \/ addContactUpDown \/ Return
SpecMode == InitAnyRevision /\ [][NextMode]_vars

\* C29: the mode switch works at run time.  A call of setBackendMode
\* (setAPIMode in the first revision) returns; after setBackendMode(false)
\* every getEntries, createEntry, deleteEntry, getContacts and addContact
\* uses the local store alone and makes no network request; after
\* setBackendMode(true) they try the service first again.
C29_ModeSwitchWorks ==
    [][/\ last.op = "idle" /\ last'.op = "setBackendMode" => last'.outcome = "returned"
       /\ last.op = "idle" /\ last'.op \in ClientOps =>
             /\ mode_asked = "false" => last'.sc = "none" /\ last'.via = "local"
             /\ mode_asked = "true" => last'.sc # "none"]_vars

(***************************************************************************)
(* initializeAPI of the auto-IP-detection revision, with two operations of *)
(* the data-access layer in progress at a time.  A task is at "probing"    *)
(* while getComputerIP runs for it (left: the candidates not yet probed),  *)
(* at "fetching" once initializeAPI has returned to callAPI.               *)
(***************************************************************************)
\* What is left alone by a step of initializeAPI.
ResolveFrame == UNCHANGED <<serverVars, localVars, now, call, screen_entries, startVars,
                            mode_asked, last>>

\* An operation calls callAPI, which awaits initializeAPI: getComputerIP starts while
\* API_BASE_URL is null, with method 1 and 2 or with method 2 alone.
OperationStarts ==
    /\ Idle
    /\ last.rev = "callAPI"
    /\ \E i \in TaskIds :
          /\ tasks[i].pc = "idle"
          /\ IF API_BASE_URL = ""
             THEN \E n \in {CommonRanges * CommonIPs, CommonEndings + CommonRanges * CommonIPs} :
                     tasks' = [tasks EXCEPT ![i] = [pc |-> "probing", left |-> n]]
             ELSE tasks' = [tasks EXCEPT ![i] = [pc |-> "fetching"]]
    /\ UNCHANGED API_BASE_URL
    /\ ResolveFrame

\* testIPConnection finds the service at a candidate: getComputerIP returns it and
\* initializeAPI assigns API_BASE_URL.
CandidateAnswers ==
    /\ \E i \in TaskIds :
          /\ tasks[i].pc = "probing"
          /\ API_BASE_URL' = "host"
          /\ tasks' = [tasks EXCEPT ![i] = [pc |-> "fetching"]]
    /\ ResolveFrame

\* testIPConnection returns false; after the last candidate getComputerIP returns
\* 'localhost' and initializeAPI assigns API_BASE_URL.
CandidateFails ==
    /\ \E i \in TaskIds :
          /\ tasks[i].pc = "probing"
          /\ IF tasks[i].left > 1
             THEN /\ tasks' = [tasks EXCEPT ![i].left = @ - 1]
                  /\ UNCHANGED API_BASE_URL
             ELSE /\ tasks' = [tasks EXCEPT ![i] = [pc |-> "fetching"]]
                  /\ API_BASE_URL' = "localhost"
    /\ ResolveFrame

\* The operation ends, with the answer of the service or from the local store.
OperationEnds ==
    /\ \E i \in TaskIds :
          /\ tasks[i].pc = "fetching"
          /\ tasks' = [tasks EXCEPT ![i] = [pc |-> "idle"]]
    /\ UNCHANGED API_BASE_URL
    /\ ResolveFrame

\* setManualIP(ip)
setManualIP ==
    /\ Idle
    /\ last.rev = "callAPI"
    /\ API_BASE_URL' = "manual"
    /\ last' = [op |-> "setManualIP", outcome |-> "returned", rev |-> last.rev]
    /\ UNCHANGED <<serverVars, localVars, now, call, tasks, screen_entries, startVars,
                   mode_asked>>

\* The client of the auto-IP-detection revision.
InitCallAPI ==
    /\ InitServer
    /\ InitClient
    /\ now = StartTime
    /\ last = [op |-> "idle", rev |-> "callAPI"]

\* Operations of the auto-IP-detection revision that overlap at initializeAPI.
NextResolve ==
    OperationStarts \/ CandidateAnswers \/ CandidateFails \/ OperationEnds
    \/ setManualIP \/ Return
SpecResolve == InitCallAPI /\ [][NextResolve]_vars

\* C30: the base URL of the service is resolved once per process.
\* getComputerIP starts only while API_BASE_URL is null and no other run of
\* it is in progress, so it runs at most once, also when several operations
\* start before the first resolution has finished; and once API_BASE_URL is
\* set, setManualIP alone changes it.
C30_ResolvedOnce ==
    [][/\ \A i \in TaskIds :
             tasks[i].pc # "probing" /\ tasks'[i].pc = "probing" =>
                /\ API_BASE_URL = ""
                /\ \A j \in TaskIds \ {i} : tasks[j].pc # "probing"
       /\ API_BASE_URL # "" /\ API_BASE_URL' # API_BASE_URL =>
             last.op = "idle" /\ last'.op = "setManualIP"]_vars

====
